---- MODULE Spec2Model ----
(***************************************************************************)
(* Verification model of the tool-call layer of otolab/modular-prompt:     *)
(*   - the free-text tool-call parser of the MLX driver                    *)
(*     (packages/driver/src/mlx-ml/tool-call-parser.ts), and               *)
(*   - the streaming paths of the Anthropic, GoogleGenAI and MLX drivers.  *)
(*                                                                         *)
(* A text is a sequence of lexemes.  A lexeme is a string that the         *)
(* regular expressions and JSON.parse of the source treat as one unit      *)
(* ("<tool_call>", "{", "\"name\":", "\n", ...).                           *)
(***************************************************************************)
EXTENDS Integers, Sequences, FiniteSets, TLC

VARIABLES
  input,   \* the model output handed to parseToolCalls
  hints,   \* the runtime hints (runtimeInfo) handed to parseToolCalls
  pc,      \* "ready", "parsed", "reparsed", or "hung" inside a call
  first,   \* what parseToolCalls(input, hints) returned
  second   \* what parseToolCalls(first.content, hints) returned

pvars == << input, hints, pc, first, second >>

(***************************************************************************)
(* Sequence helpers (String.prototype.substring / indexOf / trim).         *)
(***************************************************************************)
Slice(s, a, b) == IF a > b THEN << >> ELSE SubSeq(s, a, b)

From(s, a) == Slice(s, a, Len(s))

\* does pattern p occur in s starting at (1-based) position i ?
MatchAt(s, p, i) ==
  /\ i >= 1
  /\ i + Len(p) - 1 <= Len(s)
  /\ \A k \in 1..Len(p) : s[i + k - 1] = p[k]

\* smallest position >= from where p occurs in s, 0 when there is none
IndexOfFrom(s, p, from) ==
  LET P == { i \in from..(Len(s) - Len(p) + 1) : MatchAt(s, p, i) }
  IN IF P = {} THEN 0 ELSE CHOOSE i \in P : \A j \in P : i <= j

IndexOf(s, p) == IndexOfFrom(s, p, 1)

Whitespace == { " ", "\n" }

IsWs(x) == x \in Whitespace

\* String.prototype.trim
Trim(s) ==
  LET NW == { i \in 1..Len(s) : ~IsWs(s[i]) }
  IN IF NW = {} THEN << >>
     ELSE Slice(s, CHOOSE i \in NW : \A j \in NW : i <= j,
                   CHOOSE i \in NW : \A j \in NW : i >= j)

\* first position >= i that holds no whitespace lexeme (regex \s*)
RECURSIVE SkipWs(_, _)
SkipWs(s, i) == IF i <= Len(s) /\ IsWs(s[i]) THEN SkipWs(s, i + 1) ELSE i

(***************************************************************************)
(* JavaScript values.                                                      *)
(***************************************************************************)
JUndef == [t |-> "undef"]
JNull == [t |-> "null"]
JThrow == [t |-> "throw"]
JStr(s) == [t |-> "str", s |-> s]
JNum(n) == [t |-> "num", n |-> n]
JBool(b) == [t |-> "bool", b |-> b]
JObj(kv) == [t |-> "obj", kv |-> kv]
JArr(el) == [t |-> "arr", el |-> el]
EmptyObj == JObj(<< >>)

\* a string kept as the text it holds (a sequence of lexemes), as in
\* ToolCall.function.arguments: string
JText(text) == [t |-> "text", text |-> text]

\* ToBoolean
Truthy(v) ==
  CASE v.t = "undef" -> FALSE
    [] v.t = "null" -> FALSE
    [] v.t = "str" -> v.s # ""
    [] v.t = "num" -> v.n # 0
    [] v.t = "bool" -> v.b
    [] OTHER -> TRUE

\* a || b
JsOr(a, b) == IF Truthy(a) THEN a ELSE b

\* property read obj.key: a TypeError on null and undefined, undefined on a
\* primitive or an array, the last member of that name on an object
GetProp(obj, key) ==
  IF obj.t \in {"null", "undef", "throw"} THEN JThrow
  ELSE IF obj.t # "obj" THEN JUndef
  ELSE LET K == { i \in 1..Len(obj.kv) : obj.kv[i].k = key }
       IN IF K = {} THEN JUndef
          ELSE obj.kv[CHOOSE i \in K : \A j \in K : i >= j].v

(***************************************************************************)
(* JSON.parse over lexemes.  Key lexemes stand for a quoted member name    *)
(* with its colon; string and number lexemes stand for one literal.        *)
(***************************************************************************)
KeyTable ==
  ("\"name\":" :> "name") @@ ("\"arguments\":" :> "arguments") @@
  ("\"parameters\":" :> "parameters") @@ ("\"function\":" :> "function") @@
  ("\"tool\":" :> "tool") @@ ("\"x\":" :> "x") @@ ("\"param\":" :> "param")

StrLitTable ==
  ("\"fn_a\"" :> "fn_a") @@ ("\"fn_b\"" :> "fn_b") @@ ("\"\"" :> "") @@
  ("\"{}\"" :> "{}") @@ ("\"sunny\"" :> "sunny") @@
  ("\"tool_name\"" :> "tool_name") @@ ("\"value\"" :> "value")

NumTable == ("0" :> 0) @@ ("1" :> 1)

\* the lexemes of the text held by a string value (for a doubly encoded
\* arguments string)
Relex(s) == IF s = "{}" THEN << "{", "}" >> ELSE IF s = "" THEN << >> ELSE << s >>

POk(v, n) == [ok |-> TRUE, v |-> v, n |-> n]
PFail == [ok |-> FALSE, v |-> JUndef, n |-> 0]

RECURSIVE ParseValue(_, _), ParseMembers(_, _, _), ParseElems(_, _, _)
RECURSIVE MemberParsed(_, _, _, _), MemberNext(_, _, _)
RECURSIVE ElemParsed(_, _, _), ElemNext(_, _, _)
ParseValue(t, i) ==
  LET j == SkipWs(t, i)
  IN IF j > Len(t) THEN PFail
     ELSE LET x == t[j]
              k == SkipWs(t, j + 1)
          IN CASE x = "{" ->
                    IF k <= Len(t) /\ t[k] = "}" THEN POk(EmptyObj, k + 1)
                    ELSE ParseMembers(t, k, << >>)
               [] x = "[" ->
                    IF k <= Len(t) /\ t[k] = "]" THEN POk(JArr(<< >>), k + 1)
                    ELSE ParseElems(t, k, << >>)
               [] x \in DOMAIN StrLitTable -> POk(JStr(StrLitTable[x]), j + 1)
               [] x \in DOMAIN NumTable -> POk(JNum(NumTable[x]), j + 1)
               [] x = "null" -> POk(JNull, j + 1)
               [] x = "true" -> POk(JBool(TRUE), j + 1)
               [] x = "false" -> POk(JBool(FALSE), j + 1)
               [] OTHER -> PFail

\* a member: its key at position i, then its value
ParseMembers(t, i, acc) ==
  IF i > Len(t) \/ t[i] \notin DOMAIN KeyTable THEN PFail
  ELSE MemberParsed(t, acc, KeyTable[t[i]], ParseValue(t, i + 1))

\* the member of name key whose value parsed as r
MemberParsed(t, acc, key, r) ==
  IF ~r.ok THEN PFail
  ELSE MemberNext(t, Append(acc, [k |-> key, v |-> r.v]), SkipWs(t, r.n))

\* after a member: the closing brace, or a comma and the next member
MemberNext(t, acc, j) ==
  IF j > Len(t) THEN PFail
  ELSE IF t[j] = "}" THEN POk(JObj(acc), j + 1)
  ELSE IF t[j] = "," THEN ParseMembers(t, SkipWs(t, j + 1), acc)
  ELSE PFail

ParseElems(t, i, acc) == ElemParsed(t, acc, ParseValue(t, i))

\* the array element that parsed as r
ElemParsed(t, acc, r) ==
  IF ~r.ok THEN PFail ELSE ElemNext(t, Append(acc, r.v), SkipWs(t, r.n))

\* after an element: the closing bracket, or a comma and the next element
ElemNext(t, acc, j) ==
  IF j > Len(t) THEN PFail
  ELSE IF t[j] = "]" THEN POk(JArr(acc), j + 1)
  ELSE IF t[j] = "," THEN ParseElems(t, j + 1, acc)
  ELSE PFail

\* the value r when nothing but whitespace follows it, else the SyntaxError
WholeText(t, r) == IF r.ok /\ SkipWs(t, r.n) > Len(t) THEN r.v ELSE JThrow

\* JSON.parse: the value, or JThrow for the SyntaxError
JsonParse(t) == WholeText(t, ParseValue(t, 1))

(***************************************************************************)
(* Interior-content parsers (tool-call-parser.ts 103-274).  A parsed call  *)
(* is [t |-> "call", name, arguments]; each parser returns the sequence of *)
(* calls it found, the empty sequence standing for null.                   *)
(***************************************************************************)
ParsedCall(name, args) == [t |-> "call", name |-> name, arguments |-> args]

\* a word (\w+) lexeme
Words == { "fn_a", "fn_b", "hi", "x", "null", "None", "true", "false", "0", "1" }

\* the text of several adjacent lexemes read as one string
MergedText == "merged_text"

coerceValue(value) ==
  IF value \in {"None", "null"} THEN JNull
  ELSE IF value = "true" THEN JBool(TRUE)
  ELSE IF value = "false" THEN JBool(FALSE)
  ELSE IF value \in DOMAIN NumTable THEN JNum(NumTable[value])
  ELSE JStr(value)

\* the string a lexeme sequence spells, as coerceValue receives it
CoerceSeq(v) ==
  IF Len(v) = 0 THEN JStr("")
  ELSE IF Len(v) = 1 THEN coerceValue(v[1])
  ELSE JStr(MergedText)

\* the arguments value of obj: obj.arguments || obj.parameters || {}
ArgsOf(obj) ==
  JsOr(GetProp(obj, "arguments"), JsOr(GetProp(obj, "parameters"), EmptyObj))

\* catch { args = {} } of lines 133-135
OrEmptyObj(v) == IF v = JThrow THEN EmptyObj ELSE v

\* lines 130-136: a string is JSON.parse'd, {} when that throws
UnwrapStringArgs(args) ==
  IF args.t = "str" THEN OrEmptyObj(JsonParse(Relex(args.s))) ELSE args

IsObjectType(v) == v.t \in {"obj", "arr"}

\* JNull for "no call", JThrow for the TypeError of reading a property of null
normalizeJsonToolCall(obj) ==
  IF GetProp(obj, "name") = JThrow THEN JThrow
  ELSE IF Truthy(GetProp(obj, "name"))
  THEN ParsedCall(GetProp(obj, "name"), UnwrapStringArgs(ArgsOf(obj)))
  ELSE LET fn == GetProp(obj, "function")
           tool == GetProp(obj, "tool")
       IN IF Truthy(fn) /\ IsObjectType(fn) /\ Truthy(GetProp(fn, "name"))
          THEN ParsedCall(GetProp(fn, "name"), UnwrapStringArgs(ArgsOf(fn)))
          ELSE IF Truthy(tool) /\ IsObjectType(tool) /\ Truthy(GetProp(tool, "name"))
          THEN ParsedCall(GetProp(tool, "name"), ArgsOf(tool))
          ELSE JNull

\* Array.isArray(parsed) branch (lines 174-179): the calls of the items, or
\* <<JThrow>> when normalizeJsonToolCall throws on an item
NormalizedItems(items) ==
  IF \E i \in 1..Len(items) : items[i] = JThrow THEN << JThrow >>
  ELSE SelectSeq(items, LAMBDA c : c # JNull)

\* object branch (line 182): the call as a sequence, << >> for null
NormalizedOne(c) == IF c = JNull THEN << >> ELSE << c >>

\* the body of the try block of parseJsonToolCallContent after JSON.parse
\* gave parsed: the calls, or <<JThrow>> when something threw
JsonToolCallOf(parsed) ==
  IF parsed = JThrow THEN << JThrow >>
  ELSE IF parsed.t = "arr"
  THEN NormalizedItems([i \in 1..Len(parsed.el) |-> normalizeJsonToolCall(parsed.el[i])])
  ELSE NormalizedOne(normalizeJsonToolCall(parsed))

\* try { ... } catch { return null }
CatchNull(r) == IF r = << JThrow >> THEN << >> ELSE r

parseJsonToolCallContent(content) == CatchNull(JsonToolCallOf(JsonParse(content)))

\* key=value pairs of a call expression, scanned left to right (line 202)
RECURSIVE PythonicArgs(_, _, _)
PythonicArgs(a, p, acc) ==
  IF p > Len(a) THEN acc
  ELSE LET e == SkipWs(a, p + 1)
           v == SkipWs(a, e + 1)
           n == SkipWs(a, v + 1)
       IN IF /\ a[p] \in Words
             /\ e <= Len(a) /\ a[e] = "="
             /\ v <= Len(a) /\ a[v] \notin {",", ")"}
             /\ (n > Len(a) \/ a[n] = ",")
          THEN PythonicArgs(a, n + 1, Append(acc, [k |-> a[p], v |-> coerceValue(a[v])]))
          ELSE PythonicArgs(a, p + 1, acc)

\* the anchored call-expression pattern of line 193
parsePythonicToolCallContent(content) ==
  LET n == Len(content)
      W == { i \in 2..n : \A j \in 2..i : content[j] \in Words }
      w == IF W = {} THEN 0 ELSE CHOOSE i \in W : \A j \in W : i >= j
  IN IF /\ n >= 5 /\ content[1] = "[" /\ w >= 2 /\ w + 1 <= n - 2
        /\ content[w + 1] = "(" /\ content[n - 1] = ")" /\ content[n] = "]"
     THEN << ParsedCall(JStr(IF w = 2 THEN content[2] ELSE MergedText),
                        JObj(PythonicArgs(Trim(Slice(content, w + 2, n - 2)), 1, << >>))) >>
     ELSE << >>

\* the <parameter...>value</parameter> items of an XML call body
RECURSIVE XmlParams(_, _, _, _, _)
XmlParams(b, p, open, close, acc) ==
  LET i == IndexOfFrom(b, << open >>, p)
      e == IF i = 0 THEN 0 ELSE IndexOfFrom(b, << "</parameter>" >>, i + 3)
  IN IF i = 0 \/ i + 2 > Len(b) THEN acc
     ELSE IF b[i + 1] \in Words /\ b[i + 2] = close /\ e # 0
     THEN XmlParams(b, e + 1, open, close,
                    Append(acc, [k |-> b[i + 1],
                                 v |-> CoerceSeq(Trim(Slice(b, i + 3, e - 1)))]))
     ELSE XmlParams(b, i + 1, open, close, acc)

\* first <open name close> body <end> element of content, << >> when none
XmlElement(content, open, close, end, popen, pclose) ==
  LET S == { i \in 1..(Len(content) - 2) :
               /\ content[i] = open /\ content[i + 1] \in Words
               /\ content[i + 2] = close
               /\ IndexOfFrom(content, << end >>, i + 3) # 0 }
  IN IF S = {} THEN << >>
     ELSE LET i == CHOOSE k \in S : \A j \in S : k <= j
              e == IndexOfFrom(content, << end >>, i + 3)
          IN << ParsedCall(JStr(content[i + 1]),
                           JObj(XmlParams(Slice(content, i + 3, e - 1), 1,
                                          popen, pclose, << >>))) >>

\* a || b on two results, the empty sequence standing for null
OrElse(a, b) == IF a # << >> THEN a ELSE b

parseXmlToolCallContent(content) ==
  OrElse(XmlElement(content, "<function=", ">", "</function>", "<parameter=", ">"),
         XmlElement(content, "<invoke name=\"", "\">", "</invoke>",
                    "<parameter name=\"", "\">"))

parseToolCallContent(content) ==
  OrElse(parseJsonToolCallContent(content),
         OrElse(parsePythonicToolCallContent(content), parseXmlToolCallContent(content)))

(***************************************************************************)
(* Detection strategies (tool-call-parser.ts 276-421).  A strategy result  *)
(* is [status, content, toolCalls]; status is "returned", or "hangs" when  *)
(* the exec loop of the strategy never ends.                               *)
(***************************************************************************)
CallId(k) == << "call", k >>

ToolCall(k, name, args) == [id |-> CallId(k), name |-> name, arguments |-> args]

Returned(content, toolCalls) ==
  [status |-> "returned", content |-> content, toolCalls |-> toolCalls]

Hangs == [status |-> "hangs", content |-> << >>, toolCalls |-> << >>]

\* regex.exec of the lazy start..end pattern with lastIndex = p - 1: the leftmost
\* start at or after p that some end follows, and the nearest such end
DelimExec(text, startDelimiter, endDelimiter, p) ==
  LET S == { i \in p..(Len(text) + 1) :
               /\ MatchAt(text, startDelimiter, i)
               /\ IndexOfFrom(text, endDelimiter, i + Len(startDelimiter)) # 0 }
  IN IF S = {} THEN [found |-> FALSE, from |-> 0, inner |-> << >>, next |-> 0]
     ELSE LET i == CHOOSE k \in S : \A j \in S : k <= j
              e == IndexOfFrom(text, endDelimiter, i + Len(startDelimiter))
          IN [found |-> TRUE, from |-> i,
              inner |-> Slice(text, i + Len(startDelimiter), e - 1),
              next |-> e + Len(endDelimiter)]

\* mutant: callIndex starts again at 0 for every span
RECURSIVE PushCallsPerSpan(_, _, _)
PushCallsPerSpan(toolCalls, calls, k) ==
  IF k > Len(calls) THEN toolCalls
  ELSE PushCallsPerSpan(Append(toolCalls,
                               ToolCall(k - 1, calls[k].name,
                                        JsOr(calls[k].arguments, EmptyObj))),
                        calls, k + 1)

\* toolCalls.push for each call of one span, callIndex counting on
RECURSIVE PushCalls(_, _, _)
PushCalls(toolCalls, calls, k) ==
  IF k > Len(calls) THEN toolCalls
  ELSE PushCalls(Append(toolCalls,
                        ToolCall(Len(toolCalls), calls[k].name,
                                 JsOr(calls[k].arguments, EmptyObj))),
                 calls, k + 1)

\* the while loop of lines 292-307; an empty match leaves lastIndex where it
\* was, so the same match is found again for ever
RECURSIVE DelimLoop(_, _, _, _, _), DelimStep(_, _, _, _, _, _)
DelimLoop(text, startDelimiter, endDelimiter, p, toolCalls) ==
  DelimStep(text, startDelimiter, endDelimiter, p, toolCalls,
            DelimExec(text, startDelimiter, endDelimiter, p))

\* one turn of the loop, m being what regex.exec gave
DelimStep(text, startDelimiter, endDelimiter, p, toolCalls, m) ==
  IF ~m.found THEN Returned(text, toolCalls)
  ELSE IF m.next = p THEN Hangs
  ELSE DelimLoop(text, startDelimiter, endDelimiter, m.next,
                 PushCalls(toolCalls, parseToolCallContent(Trim(m.inner)), 1))

\* mutant: only the spans that gave a call are removed
RECURSIVE DelimStripParsedOnly(_, _, _, _), DelimCutParsedOnly(_, _, _, _, _)
DelimStripParsedOnly(text, startDelimiter, endDelimiter, p) ==
  DelimCutParsedOnly(text, startDelimiter, endDelimiter, p,
                     DelimExec(text, startDelimiter, endDelimiter, p))

DelimCutParsedOnly(text, startDelimiter, endDelimiter, p, m) ==
  IF ~m.found \/ m.next = p THEN From(text, p)
  ELSE Slice(text, p,
             IF parseToolCallContent(Trim(m.inner)) = << >> THEN m.next - 1
             ELSE m.from - 1)
         \o DelimStripParsedOnly(text, startDelimiter, endDelimiter, m.next)

\* text.replace(regex, '') for the delimiter regex, from position p on
RECURSIVE DelimStrip(_, _, _, _), DelimCut(_, _, _, _, _)
DelimStrip(text, startDelimiter, endDelimiter, p) ==
  DelimCut(text, startDelimiter, endDelimiter, p,
           DelimExec(text, startDelimiter, endDelimiter, p))

\* the text up to the match m, then the replacement of what follows it
DelimCut(text, startDelimiter, endDelimiter, p, m) ==
  IF ~m.found \/ m.next = p THEN From(text, p)
  ELSE Slice(text, p, m.from - 1)
         \o DelimStrip(text, startDelimiter, endDelimiter, m.next)

\* lines 309-314, r being what the loop left
DelimResult(text, startDelimiter, endDelimiter, r) ==
  IF r.status = "returned" /\ Len(r.toolCalls) > 0
  THEN Returned(Trim(DelimStrip(text, startDelimiter, endDelimiter, 1)), r.toolCalls)
  ELSE r

parseWithDelimiters(text, startDelimiter, endDelimiter) ==
  DelimResult(text, startDelimiter, endDelimiter,
              DelimLoop(text, startDelimiter, endDelimiter, 1, << >>))

\* the code fence of three backquotes (a backquote cannot be written in a
\* TLA+ string)
Fence == "~~~"

\* regex.exec of codeBlockRegex (line 323) from position p
CodeBlockExec(text, p) ==
  LET NlEnd(i) ==   \* last "\n" of the whitespace run that follows the label
        LET w == SkipWs(text, i + 2)
            N == { k \in (i + 2)..(w - 1) : text[k] = "\n" }
        IN IF N = {} THEN 0 ELSE CHOOSE k \in N : \A j \in N : k >= j
      S == { i \in p..(Len(text) - 1) :
               /\ text[i] = Fence /\ text[i + 1] = "json:toolCall"
               /\ NlEnd(i) # 0
               /\ IndexOfFrom(text, << Fence >>, NlEnd(i) + 1) # 0 }
  IN IF S = {} THEN [found |-> FALSE, from |-> 0, inner |-> << >>, next |-> 0]
     ELSE LET i == CHOOSE k \in S : \A j \in S : k <= j
              e == IndexOfFrom(text, << Fence >>, NlEnd(i) + 1)
          IN [found |-> TRUE, from |-> i,
              inner |-> Slice(text, NlEnd(i) + 1, e - 1), next |-> e + 1]

\* the try block of lines 328-337 once JSON.parse gave parsed: no
\* normalisation, name and arguments are read off the parsed value as they are
CodeBlockPushed(parsed, k) ==
  IF parsed = JThrow \/ GetProp(parsed, "name") = JThrow THEN << >>
  ELSE << ToolCall(k, GetProp(parsed, "name"), ArgsOf(parsed)) >>

CodeBlockCall(jsonStr, k) == CodeBlockPushed(JsonParse(jsonStr), k)

RECURSIVE CodeBlockLoop(_, _, _), CodeBlockStep(_, _, _)
CodeBlockLoop(text, p, toolCalls) == CodeBlockStep(text, toolCalls, CodeBlockExec(text, p))

\* one turn of the loop of lines 326-338
CodeBlockStep(text, toolCalls, m) ==
  IF ~m.found THEN toolCalls
  ELSE CodeBlockLoop(text, m.next,
                     toolCalls \o CodeBlockCall(Trim(m.inner), Len(toolCalls)))

\* text.replace(codeBlockRegex, '') from position p on
RECURSIVE CodeBlockStrip(_, _), CodeBlockCut(_, _, _)
CodeBlockStrip(text, p) == CodeBlockCut(text, p, CodeBlockExec(text, p))

CodeBlockCut(text, p, m) ==
  IF ~m.found THEN From(text, p)
  ELSE Slice(text, p, m.from - 1) \o CodeBlockStrip(text, m.next)

\* lines 340-344
CodeBlockResult(text, toolCalls) ==
  IF Len(toolCalls) > 0 THEN Returned(Trim(CodeBlockStrip(text, 1)), toolCalls)
  ELSE Returned(text, << >>)

parseCodeBlockToolCalls(text) == CodeBlockResult(text, CodeBlockLoop(text, 1, << >>))

\* the toolCalls array when the try block of lines 397-418 is left; calls
\* pushed before a throw stay in it
RECURSIVE MistralPushed(_, _, _)
MistralPushed(el, k, toolCalls) ==
  IF k > Len(el) \/ GetProp(el[k], "name") = JThrow THEN toolCalls
  ELSE IF Truthy(GetProp(el[k], "name"))
  THEN MistralPushed(el, k + 1,
                     Append(toolCalls,
                            ToolCall(Len(toolCalls), GetProp(el[k], "name"), ArgsOf(el[k]))))
  ELSE MistralPushed(el, k + 1, toolCalls)

\* the calls of the payload that JSON.parse gave as parsed
MistralCalls(parsed) ==
  IF parsed = JThrow \/ GetProp(parsed, "name") = JThrow THEN << >>
  ELSE IF Truthy(GetProp(parsed, "name"))
  THEN << ToolCall(0, GetProp(parsed, "name"), ArgsOf(parsed)) >>
  ELSE IF parsed.t = "arr" THEN MistralPushed(parsed.el, 1, << >>)
  ELSE << >>

\* lines 387-420, markerIndex being 0 when the marker is not in the text
MistralAt(text, marker, markerIndex) ==
  IF markerIndex = 0 THEN Returned(text, << >>)
  ELSE Returned(Trim(Slice(text, 1, markerIndex - 1)),
                MistralCalls(JsonParse(Trim(From(text, markerIndex + Len(marker))))))

parseMistralStyleToolCalls(text, marker) == MistralAt(text, marker, IndexOf(text, marker))

\* regex.exec of jsonPattern (line 354) from position p.  The pattern is
\*   "{" lazy-any  name-member  lazy-any  arguments-or-parameters-key "{"
\*   lazy-any "}" whitespace "}"
\* and backtracking takes the leftmost "{" and then the nearest name member,
\* key and closing pair for which the rest still matches.
GenericExec(text, p) ==
  LET n == Len(text)
      Least(S) == IF S = {} THEN 0 ELSE CHOOSE k \in S : \A j \in S : k <= j
      EndAt(e) == /\ text[e] = "}"
                  /\ SkipWs(text, e + 1) <= n
                  /\ text[SkipWs(text, e + 1)] = "}"
      FirstEnd(from) == Least({ e \in from..n : EndAt(e) })
      ArgAt(c) == /\ text[c] \in {"\"arguments\":", "\"parameters\":"}
                  /\ SkipWs(text, c + 1) <= n
                  /\ text[SkipWs(text, c + 1)] = "{"
                  /\ FirstEnd(SkipWs(text, c + 1) + 1) # 0
      FirstArg(from) == Least({ c \in from..n : ArgAt(c) })
      NameAt(b) == /\ text[b] = "\"name\":"
                   /\ SkipWs(text, b + 1) <= n
                   /\ text[SkipWs(text, b + 1)] \in DOMAIN StrLitTable
                   /\ StrLitTable[text[SkipWs(text, b + 1)]] # ""
                   /\ FirstArg(SkipWs(text, b + 1) + 1) # 0
      FirstName(from) == Least({ b \in from..n : NameAt(b) })
      i == Least({ k \in p..n : text[k] = "{" /\ FirstName(k + 1) # 0 })
  IN IF i = 0 THEN [found |-> FALSE, from |-> 0, whole |-> << >>, next |-> 0]
     ELSE LET b == FirstName(i + 1)
              c == FirstArg(SkipWs(text, b + 1) + 1)
              e == FirstEnd(SkipWs(text, c + 1) + 1)
              f == SkipWs(text, e + 1)
          IN [found |-> TRUE, from |-> i, whole |-> Slice(text, i, f), next |-> f + 1]

\* the try block of lines 358-369 once JSON.parse gave parsed
GenericPushed(parsed, k) ==
  IF parsed = JThrow \/ GetProp(parsed, "name") = JThrow THEN << >>
  ELSE IF /\ Truthy(GetProp(parsed, "name"))
          /\ Truthy(JsOr(GetProp(parsed, "arguments"), GetProp(parsed, "parameters")))
  THEN << ToolCall(k, GetProp(parsed, "name"), ArgsOf(parsed)) >>
  ELSE << >>

GenericCall(whole, k) == GenericPushed(JsonParse(whole), k)

RECURSIVE GenericLoop(_, _, _), GenericStep(_, _, _)
GenericLoop(text, p, toolCalls) == GenericStep(text, toolCalls, GenericExec(text, p))

\* one turn of the loop of lines 357-370
GenericStep(text, toolCalls, m) ==
  IF ~m.found THEN toolCalls
  ELSE GenericLoop(text, m.next, toolCalls \o GenericCall(m.whole, Len(toolCalls)))

\* where str is cut out of content, i being its first position (0: absent)
RemoveAt(content, str, i) ==
  IF i = 0 THEN content
  ELSE Slice(content, 1, i - 1) \o From(content, i + Len(str))

\* content.replace(str, ''): the first occurrence of str is removed
RemoveFirst(content, str) == RemoveAt(content, str, IndexOf(content, str))

\* lines 374-376: every match of the pattern is removed from content in turn
RECURSIVE GenericStrip(_, _, _), GenericCut(_, _, _)
GenericStrip(text, p, content) == GenericCut(text, content, GenericExec(text, p))

GenericCut(text, content, m) ==
  IF ~m.found THEN content
  ELSE GenericStrip(text, m.next, Trim(RemoveFirst(content, m.whole)))

\* mutant: the content is trimmed also when nothing was found
GenericResultTrimming(text, toolCalls) ==
  IF Len(toolCalls) > 0 THEN Returned(GenericStrip(text, 1, text), toolCalls)
  ELSE Returned(Trim(text), << >>)

parseGenericToolCallsTrimming(text) ==
  GenericResultTrimming(text, GenericLoop(text, 1, << >>))

\* lines 372-379
GenericResult(text, toolCalls) ==
  IF Len(toolCalls) > 0 THEN Returned(GenericStrip(text, 1, text), toolCalls)
  ELSE Returned(text, << >>)

parseGenericToolCalls(text) == GenericResult(text, GenericLoop(text, 1, << >>))

(***************************************************************************)
(* Runtime hints (MlxRuntimeInfo) and the cascade of parseToolCalls.       *)
(* A hints value is                                                        *)
(*   [call_start, call_end : lexeme sequences, << >> when absent,          *)
(*    tool_parser_type : string, "" when absent,                           *)
(*    special_tokens : key -> NoToken | pair | single token].              *)
(* A null runtimeInfo is the value with every part absent.                 *)
(***************************************************************************)
TOOL_CALL_TOKEN_KEYS ==
  << "tool_call", "tool_call_explicit", "tool_call_xml", "tool_calls_section",
     "function_call_tags", "longcat_tool_call", "minimax_tool_call" >>

NoToken == [kind |-> "none"]
TokenPair(s, e) == [kind |-> "pair", start |-> s, end |-> e]
SingleToken(x) == [kind |-> "token", text |-> x]

NoDelimiters == [start |-> << >>, end |-> << >>]

\* the delimiters of a parser type, NoDelimiters for an unknown type
KNOWN_TOOL_PARSER_DELIMITERS(type) ==
  CASE type \in {"json_tools", "glm47", "qwen3_coder"} ->
         [start |-> << "<tool_call>" >>, end |-> << "</tool_call>" >>]
    [] type = "pythonic" ->
         [start |-> << "<|tool_call_start|>" >>, end |-> << "<|tool_call_end|>" >>]
    [] type = "function_gemma" ->
         [start |-> << "<start_function_call>" >>, end |-> << "<end_function_call>" >>]
    [] type = "mistral" -> [start |-> << "[TOOL_CALLS]" >>, end |-> << >>]
    [] type = "kimi_k2" ->
         [start |-> << "<|tool_calls_section_begin|>" >>,
          end |-> << "<|tool_calls_section_end|>" >>]
    [] type = "longcat" ->
         [start |-> << "<longcat_tool_call>" >>, end |-> << "</longcat_tool_call>" >>]
    [] type = "minimax_m2" ->
         [start |-> << "<minimax:tool_call>" >>, end |-> << "</minimax:tool_call>" >>]
    [] OTHER -> NoDelimiters

Found(r) == r.status = "returned" /\ Len(r.toolCalls) > 0

\* a step of the cascade that its condition skipped: nothing found
NotTried(text) == Returned(text, << >>)

\* if (result.toolCalls.length > 0) return result; else the later steps.  A
\* step that never returns keeps the later steps from running.
FoundOr(result, rest) == IF result.status = "hangs" \/ Found(result) THEN result ELSE rest

\* steps 3 and 4 (lines 88-95)
CodeBlockThenGeneric(text) ==
  FoundOr(parseCodeBlockToolCalls(text), parseGenericToolCalls(text))

\* step 2.5 (lines 78-86), then the rest
MarkerThenRest(text, runtimeInfo) ==
  FoundOr(IF runtimeInfo.special_tokens["tool_calls_marker"].kind = "token"
          THEN parseMistralStyleToolCalls(
                 text, runtimeInfo.special_tokens["tool_calls_marker"].text)
          ELSE NotTried(text),
          CodeBlockThenGeneric(text))

\* the special-token pair of key number k, tried when the token is a pair
TokenPairStep(text, toolCallToken) ==
  IF toolCallToken.kind = "pair"
  THEN parseWithDelimiters(text, toolCallToken.start, toolCallToken.end)
  ELSE NotTried(text)

\* mutant: the labelled code block is tried before the special-token pairs
RECURSIVE SpecialTokenLoopCodeBlockFirst(_, _, _)
SpecialTokenLoopCodeBlockFirst(text, runtimeInfo, k) ==
  IF k > Len(TOOL_CALL_TOKEN_KEYS) THEN MarkerThenRest(text, runtimeInfo)
  ELSE FoundOr(IF k = 1 THEN parseCodeBlockToolCalls(text) ELSE NotTried(text),
               FoundOr(TokenPairStep(text,
                                     runtimeInfo.special_tokens[TOOL_CALL_TOKEN_KEYS[k]]),
                       SpecialTokenLoopCodeBlockFirst(text, runtimeInfo, k + 1)))

\* step 2 (lines 66-76): the for loop over TOOL_CALL_TOKEN_KEYS from key k
RECURSIVE SpecialTokenLoop(_, _, _)
SpecialTokenLoop(text, runtimeInfo, k) ==
  IF k > Len(TOOL_CALL_TOKEN_KEYS) THEN MarkerThenRest(text, runtimeInfo)
  ELSE FoundOr(TokenPairStep(text, runtimeInfo.special_tokens[TOOL_CALL_TOKEN_KEYS[k]]),
               SpecialTokenLoop(text, runtimeInfo, k + 1))

\* the known delimiters tried when both are there (line 58)
KnownStep(text, known) ==
  IF known # NoDelimiters /\ known.end # << >>
  THEN parseWithDelimiters(text, known.start, known.end)
  ELSE NotTried(text)

\* step 1.5 (lines 55-64), then the rest
ParserTypeThenRest(text, runtimeInfo) ==
  FoundOr(IF runtimeInfo.tool_parser_type # ""
          THEN KnownStep(text, KNOWN_TOOL_PARSER_DELIMITERS(runtimeInfo.tool_parser_type))
          ELSE NotTried(text),
          SpecialTokenLoop(text, runtimeInfo, 1))

parseToolCalls(text, runtimeInfo) ==
  FoundOr(IF runtimeInfo.call_start # << >> /\ runtimeInfo.call_end # << >>
          THEN parseWithDelimiters(text, runtimeInfo.call_start, runtimeInfo.call_end)
          ELSE NotTried(text),
          ParserTypeThenRest(text, runtimeInfo))

(***************************************************************************)
(* Inputs of the parser: a text is up to MaxFrags fragments put together.  *)
(***************************************************************************)
MaxFrags == 2

CallA == << "{", "\"name\":", "\"fn_a\"", ",", "\"arguments\":", "{", "}", "}" >>

CallB ==
  << "{", "\"name\":", "\"fn_b\"", ",", "\"arguments\":", "{", "\"x\":", "1", "}", "}" >>

ToolCallStart == << "<tool_call>" >>
ToolCallEnd == << "</tool_call>" >>
PyStart == << "<|tool_call_start|>" >>
PyEnd == << "<|tool_call_end|>" >>
Marker == << "[TOOL_CALLS]" >>

Fragments ==
  { << "hi" >>, << "\n" >>, ToolCallStart, ToolCallEnd, CallA,
    ToolCallStart \o << "\n" >> \o CallA \o << "\n" >> \o ToolCallEnd,
    PyStart \o CallB \o PyEnd,
    << Fence, "json:toolCall", "\n" >> \o CallB \o << "\n", Fence >>,
    ToolCallStart \o CallB \o ToolCallEnd,
    ToolCallStart \o << "hi" >> \o ToolCallEnd,
    Marker, << "null" >> }

RECURSIVE TextsOf(_)
TextsOf(k) ==
  IF k = 0 THEN { << >> }
  ELSE TextsOf(k - 1) \cup { t \o f : t \in TextsOf(k - 1), f \in Fragments }

Texts == TextsOf(MaxFrags)

SpecialTokenKeys ==
  { TOOL_CALL_TOKEN_KEYS[i] : i \in 1..Len(TOOL_CALL_TOKEN_KEYS) } \cup {"tool_calls_marker"}

\* hints with the given template delimiters, parser type and the special
\* tokens tool_call, tool_call_xml and tool_calls_marker
HintsOf(tpl, type, tc, xml, marker) ==
  [call_start |-> tpl.start, call_end |-> tpl.end, tool_parser_type |-> type,
   special_tokens |->
     [k \in SpecialTokenKeys |->
        CASE k = "tool_call" -> tc
          [] k = "tool_call_xml" -> xml
          [] k = "tool_calls_marker" -> marker
          [] OTHER -> NoToken]]

HintsSet ==
  { HintsOf(tpl, type, tc, xml, marker) :
      tpl \in { NoDelimiters, [start |-> PyStart, end |-> PyEnd] },
      type \in { "", "json_tools", "mistral" },
      tc \in { NoToken, TokenPair(ToolCallStart, ToolCallEnd), TokenPair(<< >>, << >>),
               SingleToken(ToolCallStart) },
      xml \in { NoToken, TokenPair(PyStart, PyEnd) },
      marker \in { NoToken, SingleToken(Marker) } }

NoResult == [status |-> "none", content |-> << >>, toolCalls |-> << >>]

(***************************************************************************)
(* State of one query or streamQuery call on a driver                      *)
(* (anthropic-driver.ts 247-401, google-genai-driver.ts 288-588, MlxDriver *)
(* query and streamQuery).                                                 *)
(***************************************************************************)
VARIABLES
  driver,    \* "anthropic", "google" or "mlx"; "none" when no driver call runs
  op,        \* "query" or "streamQuery"
  tools,     \* TRUE when options.tools is a non-empty list
  spc,       \* where the call is: "idle", "call" (request not yet answered),
             \* "streaming", "done", "caught", "rejected" or "failed"
  wire,      \* the chunks the provider has delivered so far, in order
  acc,       \* the shared state of the closures of streamQuery
  gen,       \* the stream generator: [pc, index]
  yielded,   \* the chunks the consumer of the stream has received, in order
  resultP,   \* the result promise: [state, value]
  outcome    \* what the awaited query / streamQuery call gave: [state, value]

svars == << driver, op, tools, spc, wire, acc, gen, yielded, resultP, outcome >>

(***************************************************************************)
(* State of two streamQuery calls in flight on one driver instance, and of *)
(* the building of the request a driver sends to its provider.             *)
(***************************************************************************)
VARIABLES
  cdriver,   \* the driver the two streams run on; "none" when there are none
  cstreams,  \* stream -> [pc, wire, index, yielded, result]
  caccs,     \* accumulator -> the shared state of the closures of one call
  rdriver,   \* the driver that builds a request; "none" when none is built
  prompt,    \* the elements of prompt.data
  messages,  \* options.messages
  converted, \* what the driver's ChatMessage conversion gave for each message
  request,   \* the messages / contents handed to the provider's client
  apiStrategy  \* options.apiStrategy of a query to MlxDriver; "none" elsewhere

cvars == << cdriver, cstreams, caccs >>

rvars == << rdriver, prompt, messages, converted, request, apiStrategy >>

xvars == << cvars, rvars >>

vars == << pvars, svars, xvars >>

\* let fullContent = '', finishReason = 'stop', streamConsumed = false,
\* chunks = [], toolCallDeltas = new Map(), accumulatedToolCalls = []
EmptyAcc ==
  [fullContent |-> << >>, chunks |-> << >>, toolCallDeltas |-> << >>,
   accumulatedToolCalls |-> << >>, finishReason |-> "stop", streamConsumed |-> FALSE]

\* a QueryResult; toolCalls is meaningful when hasToolCalls, else undefined
QueryResult(content, hasToolCalls, toolCalls, finishReason) ==
  [content |-> content, hasToolCalls |-> hasToolCalls, toolCalls |-> toolCalls,
   finishReason |-> finishReason]

NoValue == QueryResult(<< >>, FALSE, << >>, "")

Pending == [state |-> "pending", value |-> NoValue]

GenIdle == [pc |-> "idle", index |-> 0]

\* no driver call is running
StreamIdle ==
  /\ driver = "none" /\ op = "none" /\ tools = FALSE /\ spc = "idle"
  /\ wire = << >> /\ acc = EmptyAcc /\ gen = GenIdle /\ yielded = << >>
  /\ resultP = Pending /\ outcome = Pending

\* the two streamQuery calls that may be in flight on one driver instance
Streams == { 1, 2 }

\* a streamQuery call that has not been made
\* (overlap records that the call took a chunk while the other call was
\* streaming and had taken chunks)
NoStream ==
  [pc |-> "idle", wire |-> << >>, index |-> 0, yielded |-> << >>, result |-> Pending,
   overlap |-> FALSE]

\* no two streams are being run
ConcIdle ==
  /\ cdriver = "none"
  /\ cstreams = [s \in Streams |-> NoStream]
  /\ caccs = [s \in Streams |-> EmptyAcc]

\* no request has been built: state is "none", "built" or "threw"
NoRequest == [state |-> "none", contents |-> << >>]

\* no request is being built
RequestIdle ==
  /\ rdriver = "none" /\ prompt = << >> /\ messages = << >>
  /\ converted = << >> /\ request = NoRequest /\ apiStrategy = "none"

\* parseToolCalls is not being exercised on its own
ParserIdle ==
  /\ input = << >> /\ hints = HintsOf(NoDelimiters, "", NoToken, NoToken, NoToken)
  /\ pc = "off" /\ first = NoResult /\ second = NoResult

(***************************************************************************)
(* The parser as a state machine: one call on the input, one on the        *)
(* content that call returned.                                             *)
(***************************************************************************)
Init ==
  /\ input \in Texts
  /\ hints \in HintsSet
  /\ pc = "ready"
  /\ first = NoResult
  /\ second = NoResult
  /\ StreamIdle /\ ConcIdle /\ RequestIdle

Parse ==
  /\ pc = "ready"
  /\ first' = parseToolCalls(input, hints)
  /\ pc' = IF first'.status = "returned" THEN "parsed" ELSE "hung"
  /\ UNCHANGED << input, hints, second >>
  /\ UNCHANGED << svars, xvars >>

Reparse ==
  /\ pc = "parsed"
  /\ second' = parseToolCalls(first.content, hints)
  /\ pc' = IF second'.status = "returned" THEN "reparsed" ELSE "hung"
  /\ UNCHANGED << input, hints, first >>
  /\ UNCHANGED << svars, xvars >>

Next == Parse \/ Reparse

Spec == Init /\ [][Next]_vars

(***************************************************************************)
(* Notions the properties are stated with.                                 *)
(***************************************************************************)
\* the delimiter pairs the hints enable, in the documented order: template
\* delimiters, named parser format, special-token pairs by key
RECURSIVE TokenPairsFrom(_, _)
TokenPairsFrom(h, k) ==
  IF k > Len(TOOL_CALL_TOKEN_KEYS) THEN << >>
  ELSE LET tok == h.special_tokens[TOOL_CALL_TOKEN_KEYS[k]]
       IN (IF tok.kind = "pair" THEN << [start |-> tok.start, end |-> tok.end] >>
           ELSE << >>) \o TokenPairsFrom(h, k + 1)

DelimiterPairs(h) ==
  (IF h.call_start # << >> /\ h.call_end # << >>
   THEN << [start |-> h.call_start, end |-> h.call_end] >> ELSE << >>)
  \o (IF KNOWN_TOOL_PARSER_DELIMITERS(h.tool_parser_type).end # << >>
      THEN << KNOWN_TOOL_PARSER_DELIMITERS(h.tool_parser_type) >> ELSE << >>)
  \o TokenPairsFrom(h, 1)

\* what each strategy alone makes of the text, in the documented order
StrategyResults(t, h) ==
  [k \in 1..Len(DelimiterPairs(h)) |->
     parseWithDelimiters(t, DelimiterPairs(h)[k].start, DelimiterPairs(h)[k].end)]
  \o (IF h.special_tokens["tool_calls_marker"].kind = "token"
      THEN << parseMistralStyleToolCalls(t, h.special_tokens["tool_calls_marker"].text) >>
      ELSE << >>)
  \o << parseCodeBlockToolCalls(t), parseGenericToolCalls(t) >>

\* index of the first result with a call, 0 when there is none
FirstFound(rs) ==
  LET F == { k \in 1..Len(rs) : Found(rs[k]) }
  IN IF F = {} THEN 0 ELSE CHOOSE k \in F : \A j \in F : k <= j

\* the spans the lazy start..end pattern matches in t, as <<first, last>>
RECURSIVE SpansFrom(_, _, _, _)
SpansFrom(t, s, e, p) ==
  LET m == DelimExec(t, s, e, p)
  IN IF ~m.found \/ m.next = p THEN {}
     ELSE { << m.from, m.next - 1 >> } \cup SpansFrom(t, s, e, m.next)

\* t without the positions covered by spans
RECURSIVE CutFrom(_, _, _)
CutFrom(t, spans, i) ==
  IF i > Len(t) THEN << >>
  ELSE (IF \E sp \in spans : sp[1] <= i /\ i <= sp[2] THEN << >> ELSE << t[i] >>)
         \o CutFrom(t, spans, i + 1)

\* is a a subsequence of b ?
RECURSIVE IsSubseq(_, _)
IsSubseq(a, b) ==
  IF a = << >> THEN TRUE
  ELSE IF b = << >> THEN FALSE
  ELSE IF Head(a) = Head(b) THEN IsSubseq(Tail(a), Tail(b))
  ELSE IsSubseq(a, Tail(b))

\* the string literals of t, in text order
LiteralsOf(t) ==
  LET lits == SelectSeq(t, LAMBDA x : x \in DOMAIN StrLitTable)
  IN [i \in 1..Len(lits) |-> StrLitTable[lits[i]]]

\* the names of the calls, in result order
NamesOf(toolCalls) ==
  LET named == SelectSeq(toolCalls, LAMBDA c : c.name.t = "str")
  IN [i \in 1..Len(named) |-> named[i].name.s]

Parsed == pc \in {"parsed", "reparsed"}

(***************************************************************************)
(* C1.  parseToolCalls returns the result of the first strategy, in the    *)
(* order template delimiters, named parser format, special-token pairs,    *)
(* single marker, labelled code block, generic scan, that finds a call,    *)
(* and nothing of a later strategy; with no call anywhere it returns the   *)
(* generic scan's result.                                                  *)
(***************************************************************************)
C1_FirstStrategyWins ==
  Parsed =>
    LET rs == StrategyResults(input, hints)
        k == FirstFound(rs)
    IN first = rs[IF k = 0 THEN Len(rs) ELSE k]

\* a special-token call and a code-block call in one text: only the former
C1_Witness ==
  /\ Parsed
  /\ \E k \in 1..Len(DelimiterPairs(hints)) :
       /\ DelimiterPairs(hints)[k].start = ToolCallStart
       /\ first = parseWithDelimiters(input, ToolCallStart, ToolCallEnd)
  /\ Found(parseCodeBlockToolCalls(input))
  /\ Len(first.toolCalls) = 1
  /\ first.toolCalls[1].name = JStr("fn_a")

C3_ReparseFindsNothing ==
  pc = "reparsed" => Len(second.toolCalls) = 0

C5_NoCallKeepsText ==
  (Parsed /\ FirstFound(StrategyResults(input, hints)) = 0) =>
    /\ first.content = input
    /\ first.toolCalls = << >>

\* an input with a failing span and surrounding whitespace comes back whole
C5_Witness ==
  /\ Parsed
  /\ first.toolCalls = << >>
  /\ Len(input) > 0
  /\ IsWs(input[1])
  /\ SpansFrom(input, ToolCallStart, ToolCallEnd, 1) # {}
  /\ hints.special_tokens["tool_call"] = TokenPair(ToolCallStart, ToolCallEnd)
  /\ first.content = input

(***************************************************************************)
(* C6.  parseToolCalls returns a result and never throws, for every text   *)
(* and every hints value.                                                  *)
(***************************************************************************)
C6_AlwaysReturns ==
  /\ pc # "hung"
  /\ first.status \in {"none", "returned"}
  /\ second.status \in {"none", "returned"}

(***************************************************************************)
(* The provider side of a stream.  The n-th chunk of a stream carries the  *)
(* text lexeme TextLex[n] or the argument fragment FragLex[n], so that     *)
(* every piece delivered shows where in the stream it came from.           *)
(***************************************************************************)
MaxChunks == 5

MaxIndex == 1

TextLex == << "t1", "t2", "t3", "t4", "t5", "t6", "t7", "t8" >>

FragLex == << "j1", "j2", "j3", "j4", "j5", "j6", "j7", "j8" >>

\* JSON.stringify: the lexemes of the text of a value
KeyLexeme(k) == CHOOSE l \in DOMAIN KeyTable : KeyTable[l] = k

StrLexeme(s) == CHOOSE l \in DOMAIN StrLitTable : StrLitTable[l] = s

NumLexeme(n) == CHOOSE l \in DOMAIN NumTable : NumTable[l] = n

RECURSIVE JsonStringify(_), StringifyMembers(_, _), StringifyElems(_, _)
JsonStringify(v) ==
  CASE v.t = "obj" -> << "{" >> \o StringifyMembers(v.kv, 1) \o << "}" >>
    [] v.t = "arr" -> << "[" >> \o StringifyElems(v.el, 1) \o << "]" >>
    [] v.t = "str" -> << StrLexeme(v.s) >>
    [] v.t = "num" -> << NumLexeme(v.n) >>
    [] v.t = "bool" -> IF v.b THEN << "true" >> ELSE << "false" >>
    [] OTHER -> << "null" >>

StringifyMembers(kv, i) ==
  IF i > Len(kv) THEN << >>
  ELSE (IF i > 1 THEN << "," >> ELSE << >>)
         \o << KeyLexeme(kv[i].k) >> \o JsonStringify(kv[i].v)
         \o StringifyMembers(kv, i + 1)

StringifyElems(el, i) ==
  IF i > Len(el) THEN << >>
  ELSE (IF i > 1 THEN << "," >> ELSE << >>)
         \o JsonStringify(el[i]) \o StringifyElems(el, i + 1)

(***************************************************************************)
(* AnthropicDriver.streamQuery (anthropic-driver.ts 256-401).              *)
(***************************************************************************)
\* a chunk of the Anthropic stream
AnthropicEvent(type, index, text, stop_reason) ==
  [type |-> type, index |-> index, text |-> text, stop_reason |-> stop_reason]

\* the id and the name of the tool_use block of a content index
ToolUseId(index) == << "toolu", index >>

ToolUseName(index) == IF index = 0 THEN "fn_a" ELSE "fn_b"

\* the content indices whose tool_use block has started
Started(w) == { w[i].index : i \in { k \in 1..Len(w) : w[k].type = "content_block_start" } }

\* the chunks the provider may deliver after w: text, the start of a
\* tool_use block of a higher index than those started, an argument fragment
\* for a started block (for any of them: fragments of several blocks may
\* interleave), or the message_delta that closes the message
AnthropicChunks(w) ==
  IF \E i \in 1..Len(w) : w[i].type = "message_delta" THEN {}
  ELSE { AnthropicEvent("text_delta", 0, << TextLex[Len(w) + 1] >>, "") }
       \cup { AnthropicEvent("content_block_start", i, << >>, "") :
                i \in { k \in 0..MaxIndex : \A s \in Started(w) : k > s } }
       \cup { AnthropicEvent("input_json_delta", i, << FragLex[Len(w) + 1] >>, "") :
                i \in Started(w) }
       \cup { AnthropicEvent("message_delta", 0, << >>, r) :
                r \in { "tool_use", "max_tokens", "end_turn" } }

\* Map.prototype.get: the position of the entry of a key, 0 when absent
MapPos(map, key) ==
  IF \E i \in 1..Len(map) : map[i].index = key
  THEN CHOOSE i \in 1..Len(map) : map[i].index = key
  ELSE 0

\* Map.prototype.set: a new key is added last, a known key keeps its place
MapSet(map, entry) ==
  IF MapPos(map, entry.index) = 0 THEN Append(map, entry)
  ELSE [map EXCEPT ![MapPos(map, entry.index)] = entry]

\* existing.arguments += partial_json, when the index has an entry
AppendArguments(map, pos, partial_json) ==
  IF pos = 0 THEN map
  ELSE [map EXCEPT ![pos].arguments = @ \o partial_json]

\* mutant: the fragment goes to the entry registered last, whatever its index
OnAnthropicChunkLastEntry(a, chunk) ==
  CASE chunk.type = "text_delta" ->
         [a EXCEPT !.fullContent = @ \o chunk.text, !.chunks = Append(@, chunk.text)]
    [] chunk.type = "content_block_start" ->
         [a EXCEPT !.toolCallDeltas =
            MapSet(@, [index |-> chunk.index, id |-> ToolUseId(chunk.index),
                       name |-> ToolUseName(chunk.index), arguments |-> << >>])]
    [] chunk.type = "input_json_delta" ->
         [a EXCEPT !.toolCallDeltas = AppendArguments(@, Len(@), chunk.text)]
    [] chunk.type = "message_delta" ->
         [a EXCEPT !.finishReason =
            IF chunk.stop_reason = "tool_use" THEN "tool_calls"
            ELSE IF chunk.stop_reason = "max_tokens" THEN "length"
            ELSE "stop"]
    [] OTHER -> a

\* the body of the for await loop of processStream (lines 300-338)
OnAnthropicChunk(a, chunk) ==
  CASE chunk.type = "text_delta" ->
         [a EXCEPT !.fullContent = @ \o chunk.text, !.chunks = Append(@, chunk.text)]
    [] chunk.type = "content_block_start" ->
         [a EXCEPT !.toolCallDeltas =
            MapSet(@, [index |-> chunk.index, id |-> ToolUseId(chunk.index),
                       name |-> ToolUseName(chunk.index), arguments |-> << >>])]
    [] chunk.type = "input_json_delta" ->
         [a EXCEPT !.toolCallDeltas =
            AppendArguments(@, MapPos(@, chunk.index), chunk.text)]
    [] chunk.type = "message_delta" ->
         [a EXCEPT !.finishReason =
            IF chunk.stop_reason = "tool_use" THEN "tool_calls"
            ELSE IF chunk.stop_reason = "max_tokens" THEN "length"
            ELSE "stop"]
    [] OTHER -> a

\* the value of resultPromise (lines 359-395): the calls in the order of
\* Array.from(toolCallDeltas.values()), the arguments the accumulated string
AnthropicResult(a) ==
  QueryResult(a.fullContent, Len(a.toolCallDeltas) > 0,
              [i \in 1..Len(a.toolCallDeltas) |->
                 [id |-> a.toolCallDeltas[i].id, name |-> a.toolCallDeltas[i].name,
                  arguments |-> JText(a.toolCallDeltas[i].arguments)]],
              a.finishReason)

(***************************************************************************)
(* GoogleGenAIDriver (google-genai-driver.ts): extractToolCalls 266-283,   *)
(* query 288-411, streamQuery 416-588.                                     *)
(***************************************************************************)
\* a functionCall part; id << >> and args JUndef stand for an absent field
FunctionCall(id, name, args) == [id |-> id, name |-> name, args |-> args]

\* a chunk of the stream, or the response of generateContent: the text of its
\* text parts, its functionCall parts, the finishReason of its candidate
\* ("" when there is none)
GoogleChunk(text, calls, finishReason) ==
  [text |-> text, calls |-> calls, finishReason |-> finishReason]

ArgsX == JObj(<< [k |-> "x", v |-> JNum(1)] >>)

\* what the n-th chunk may hold
GoogleParts(n) ==
  { GoogleChunk(<< TextLex[n] >>, << >>, ""),
    GoogleChunk(<< >>, << FunctionCall(<< "gid", n >>, "fn_a", ArgsX) >>, ""),
    GoogleChunk(<< >>, << FunctionCall(<< >>, "fn_a", JUndef) >>, ""),
    GoogleChunk(<< >>, << FunctionCall(<< >>, "fn_a", EmptyObj),
                          FunctionCall(<< >>, "fn_b", ArgsX) >>, "") }

\* the chunks the provider may deliver after w; the chunk that carries the
\* finish reason is the last one
GoogleChunks(w) ==
  IF \E i \in 1..Len(w) : w[i].finishReason # "" THEN {}
  ELSE GoogleParts(Len(w) + 1)
       \cup { GoogleChunk(<< >>, << >>, r) : r \in { "STOP", "MAX_TOKENS", "OTHER" } }

\* finishReasonMap[reason] || 'error' (lines 36-48)
finishReasonMap(reason) ==
  CASE reason = "STOP" -> "stop"
    [] reason = "MAX_TOKENS" -> "length"
    [] reason \in { "SAFETY", "RECITATION" } -> "stop"
    [] OTHER -> "error"

\* the loop of extractToolCalls from part k on
RECURSIVE ExtractFrom(_, _, _)
ExtractFrom(parts, k, toolCalls) ==
  IF k > Len(parts) THEN toolCalls
  ELSE ExtractFrom(parts, k + 1,
         Append(toolCalls,
                [id |-> IF parts[k].id # << >> THEN parts[k].id
                        ELSE CallId(Len(toolCalls)),
                 name |-> parts[k].name,
                 arguments |-> JText(JsonStringify(IF parts[k].args = JUndef THEN EmptyObj
                                                   ELSE parts[k].args))]))

extractToolCalls(parts) == ExtractFrom(parts, 1, << >>)

\* the body of the for await loop of processStream (lines 499-531)
OnGoogleChunk(a, chunk) ==
  [a EXCEPT
     !.fullContent = @ \o chunk.text,
     !.chunks = IF chunk.text # << >> THEN Append(@, chunk.text) ELSE @,
     !.accumulatedToolCalls = @ \o extractToolCalls(chunk.calls),
     !.finishReason = IF chunk.finishReason # "" THEN finishReasonMap(chunk.finishReason)
                      ELSE @]

\* the end of processStream (lines 532-542); failed when the loop threw
OnGoogleEnd(a, failed) ==
  [a EXCEPT
     !.finishReason = IF Len(a.accumulatedToolCalls) > 0 THEN "tool_calls"
                      ELSE IF failed THEN "error" ELSE @,
     !.streamConsumed = TRUE]

\* the value of resultPromise (lines 562-582)
GoogleResult(a) ==
  QueryResult(a.fullContent, Len(a.accumulatedToolCalls) > 0, a.accumulatedToolCalls,
              a.finishReason)

\* the responses generateContent may give to query
GoogleResponses ==
  { GoogleChunk(c.text, c.calls, r) : c \in GoogleParts(1), r \in { "STOP", "MAX_TOKENS", "" } }

\* what query returns for a response, toolCalls being what extractToolCalls
\* gave (lines 361-399)
GoogleQueryResultOf(response, toolCalls) ==
  QueryResult(response.text, Len(toolCalls) > 0, toolCalls,
              IF Len(toolCalls) > 0 THEN "tool_calls"
              ELSE finishReasonMap(IF response.finishReason # "" THEN response.finishReason
                                   ELSE "error"))

GoogleQueryResult(response) ==
  GoogleQueryResultOf(response, extractToolCalls(response.calls))

\* the catch block of query (lines 400-410)
ErrorResult == QueryResult(<< >>, FALSE, << >>, "error")

(***************************************************************************)
(* MlxDriver (part_008): createStreamIterable 327-358, query 489-501,      *)
(* streamQuery 505-565.                                                    *)
(***************************************************************************)
\* the runtime info of the local model
MlxRuntimeInfo ==
  HintsOf(NoDelimiters, "", TokenPair(ToolCallStart, ToolCallEnd), NoToken, NoToken)

\* the pieces of generated text the model process may write to its stream
MlxChunks == { << "hi" >>, ToolCallStart \o CallA, ToolCallEnd }

\* chunks.join('')
RECURSIVE Join(_, _)
Join(chunks, k) == IF k > Len(chunks) THEN << >> ELSE chunks[k] \o Join(chunks, k + 1)

\* the result once tool calls were looked for (lines 541-558)
MlxResultOf(content, found, parseResult) ==
  IF found /\ Len(parseResult.toolCalls) > 0
  THEN QueryResult(parseResult.content, TRUE, parseResult.toolCalls, "tool_calls")
  ELSE QueryResult(content, FALSE, << >>, "stop")

\* the value of resultPromise for the content of a stream that ended well
MlxResult(content, withTools) ==
  MlxResultOf(content, withTools,
              IF withTools THEN parseToolCalls(content, MlxRuntimeInfo) ELSE NotTried(content))

(***************************************************************************)
(* One call of query or streamQuery on a driver, as a state machine.       *)
(***************************************************************************)
\* the calls made: driver, operation, options.tools non-empty
Calls ==
  { << d, o, TRUE >> : d \in { "anthropic", "google", "mlx" }, o \in { "query", "streamQuery" } }
  \cup { << "mlx", o, FALSE >> : o \in { "query", "streamQuery" } }

StreamInit ==
  /\ ParserIdle /\ ConcIdle /\ RequestIdle
  /\ \E c \in Calls : driver = c[1] /\ op = c[2] /\ tools = c[3]
  /\ spc = "call"
  /\ wire = << >> /\ acc = EmptyAcc /\ gen = GenIdle /\ yielded = << >>
  /\ resultP = Pending /\ outcome = Pending

Threw == [state |-> "threw", value |-> NoValue]

\* the request is accepted and the provider's stream is there: streamQuery
\* returns { stream, result }; processStream has started (Anthropic, Google)
CreateStream ==
  /\ spc = "call" /\ ~(driver = "google" /\ op = "query")
  /\ spc' = "streaming"
  /\ gen' = IF op = "streamQuery" \/ driver = "mlx" THEN [pc |-> "running", index |-> 0]
            ELSE gen
  /\ outcome' = IF op = "streamQuery" THEN [state |-> "stream", value |-> NoValue]
                ELSE outcome
  /\ UNCHANGED << pvars, xvars, driver, op, tools, wire, acc, yielded, resultP >>

\* the request itself is rejected (transport or API error): the await in
\* streamQuery throws, and so does the await in query (Anthropic 249, Mlx 491)
CreateFails ==
  /\ spc = "call" /\ ~(driver = "google" /\ op = "query")
  /\ spc' = "failed"
  /\ outcome' = Threw
  /\ UNCHANGED << pvars, xvars, driver, op, tools, wire, acc, gen, yielded, resultP >>

\* GoogleGenAIDriver.query: generateContent answers
GoogleQuery ==
  /\ spc = "call" /\ driver = "google" /\ op = "query"
  /\ \E response \in GoogleResponses :
       /\ wire' = << response >>
       /\ outcome' = [state |-> "returned", value |-> GoogleQueryResult(response)]
  /\ spc' = "done"
  /\ UNCHANGED << pvars, xvars, driver, op, tools, acc, gen, yielded, resultP >>

\* GoogleGenAIDriver.query: generateContent throws, the catch block returns
GoogleQueryFails ==
  /\ spc = "call" /\ driver = "google" /\ op = "query"
  /\ spc' = "failed"
  /\ outcome' = [state |-> "returned", value |-> ErrorResult]
  /\ UNCHANGED << pvars, xvars, driver, op, tools, wire, acc, gen, yielded, resultP >>

\* Anthropic processStream: the for await loop takes the next chunk
ProcessAnthropicChunk ==
  /\ driver = "anthropic" /\ spc = "streaming" /\ Len(wire) < MaxChunks
  /\ \E chunk \in AnthropicChunks(wire) :
       /\ wire' = Append(wire, chunk)
       /\ acc' = OnAnthropicChunk(acc, chunk)
  /\ UNCHANGED << pvars, xvars, driver, op, tools, spc, gen, yielded, resultP, outcome >>

\* Anthropic processStream: the provider's sequence ends, streamConsumed = true
ProcessAnthropicEnd ==
  /\ driver = "anthropic" /\ spc = "streaming"
  /\ acc' = [acc EXCEPT !.streamConsumed = TRUE]
  /\ spc' = "done"
  /\ UNCHANGED << pvars, xvars, driver, op, tools, wire, gen, yielded, resultP, outcome >>

\* Anthropic processStream: the provider's iterator throws; nothing catches
\* it, processingPromise rejects and streamConsumed stays false
ProcessAnthropicFails ==
  /\ driver = "anthropic" /\ spc = "streaming"
  /\ spc' = "rejected"
  /\ UNCHANGED << pvars, xvars, driver, op, tools, wire, acc, gen, yielded, resultP, outcome >>

\* Google processStream: the for await loop takes the next chunk
ProcessGoogleChunk ==
  /\ driver = "google" /\ spc = "streaming" /\ Len(wire) < MaxChunks
  /\ \E chunk \in GoogleChunks(wire) :
       /\ wire' = Append(wire, chunk)
       /\ acc' = OnGoogleChunk(acc, chunk)
  /\ UNCHANGED << pvars, xvars, driver, op, tools, spc, gen, yielded, resultP, outcome >>

\* Google processStream: the provider's sequence ends
ProcessGoogleEnd ==
  /\ driver = "google" /\ spc = "streaming"
  /\ acc' = OnGoogleEnd(acc, FALSE)
  /\ spc' = "done"
  /\ UNCHANGED << pvars, xvars, driver, op, tools, wire, gen, yielded, resultP, outcome >>

\* Google processStream: the provider's iterator throws into the catch block
ProcessGoogleFails ==
  /\ driver = "google" /\ spc = "streaming"
  /\ acc' = OnGoogleEnd(acc, TRUE)
  /\ spc' = "caught"
  /\ UNCHANGED << pvars, xvars, driver, op, tools, wire, gen, yielded, resultP, outcome >>

\* a createStreamIterable that would resolve the completion with the first
\* chunk it hands on, before the consumer has read the stream to its end
MlxYieldResolving ==
  /\ driver = "mlx" /\ spc = "streaming" /\ gen.pc = "running" /\ Len(wire) < MaxChunks
  /\ \E chunk \in MlxChunks :
       /\ wire' = Append(wire, chunk)
       /\ acc' = [acc EXCEPT !.chunks = Append(@, chunk), !.fullContent = Join(Append(acc.chunks, chunk), 1)]
       /\ yielded' = Append(yielded, chunk)
  /\ gen' = [gen EXCEPT !.index = @ + 1]
  /\ spc' = "done"
  /\ UNCHANGED << pvars, xvars, driver, op, tools, resultP, outcome >>

\* createStreamIterable: the consumer asks for the next chunk and the model
\* process has one; it is collected and yielded as it is
MlxYield ==
  /\ driver = "mlx" /\ spc = "streaming" /\ gen.pc = "running" /\ Len(wire) < MaxChunks
  /\ \E chunk \in MlxChunks :
       /\ wire' = Append(wire, chunk)
       /\ acc' = [acc EXCEPT !.chunks = Append(@, chunk)]
       /\ yielded' = Append(yielded, chunk)
  /\ gen' = [gen EXCEPT !.index = @ + 1]
  /\ UNCHANGED << pvars, xvars, driver, op, tools, spc, resultP, outcome >>

\* createStreamIterable: the stream of the model process ends
MlxEnd ==
  /\ driver = "mlx" /\ spc = "streaming" /\ gen.pc = "running"
  /\ acc' = [acc EXCEPT !.fullContent = Join(acc.chunks, 1), !.streamConsumed = TRUE]
  /\ gen' = [gen EXCEPT !.pc = "ended"]
  /\ spc' = "done"
  /\ UNCHANGED << pvars, xvars, driver, op, tools, wire, yielded, resultP, outcome >>

\* createStreamIterable: the stream of the model process errors; completion
\* resolves with the error and the iterator rethrows it
MlxFails ==
  /\ driver = "mlx" /\ spc = "streaming" /\ gen.pc = "running"
  /\ acc' = [acc EXCEPT !.fullContent = Join(acc.chunks, 1)]
  /\ gen' = [gen EXCEPT !.pc = "threw"]
  /\ spc' = "rejected"
  /\ UNCHANGED << pvars, xvars, driver, op, tools, wire, yielded, resultP, outcome >>

\* resultPromise settles once processing is over
ResultSettles ==
  /\ resultP.state = "pending" /\ spc \in { "done", "caught", "rejected" }
  /\ ~(driver = "google" /\ op = "query")
  /\ resultP' =
       CASE spc = "rejected" -> [state |-> "rejected", value |-> NoValue]
         [] driver = "anthropic" -> [state |-> "fulfilled", value |-> AnthropicResult(acc)]
         [] driver = "google" -> [state |-> "fulfilled", value |-> GoogleResult(acc)]
         [] OTHER -> [state |-> "fulfilled", value |-> MlxResult(acc.fullContent, tools)]
  /\ UNCHANGED << pvars, xvars, driver, op, tools, spc, wire, acc, gen, yielded, outcome >>

\* streamGenerator (Anthropic 347-356, Google 549-559): a cached chunk is there
GenYield ==
  /\ driver \in { "anthropic", "google" } /\ gen.pc = "running"
  /\ gen.index < Len(acc.chunks)
  /\ yielded' = Append(yielded, acc.chunks[gen.index + 1])
  /\ gen' = [gen EXCEPT !.index = @ + 1]
  /\ UNCHANGED << pvars, xvars, driver, op, tools, spc, wire, acc, resultP, outcome >>

\* streamGenerator: no cached chunk and streamConsumed is false: wait 10 ms
GenSleep ==
  /\ driver \in { "anthropic", "google" } /\ gen.pc = "running"
  /\ gen.index >= Len(acc.chunks) /\ ~acc.streamConsumed
  /\ gen' = [gen EXCEPT !.pc = "sleeping"]
  /\ UNCHANGED << pvars, xvars, driver, op, tools, spc, wire, acc, yielded, resultP, outcome >>

\* streamGenerator: the timer fires, the loop condition is tested again
GenWake ==
  /\ driver \in { "anthropic", "google" } /\ gen.pc = "sleeping"
  /\ gen' = [gen EXCEPT !.pc = "running"]
  /\ UNCHANGED << pvars, xvars, driver, op, tools, spc, wire, acc, yielded, resultP, outcome >>

\* streamGenerator: the loop condition is false, the stream is at its end
GenEnd ==
  /\ driver \in { "anthropic", "google" } /\ gen.pc = "running"
  /\ gen.index >= Len(acc.chunks) /\ acc.streamConsumed
  /\ gen' = [gen EXCEPT !.pc = "ended"]
  /\ UNCHANGED << pvars, xvars, driver, op, tools, spc, wire, acc, yielded, resultP, outcome >>

\* query of AnthropicDriver (247-251) returns the awaited result; query of
\* MlxDriver (489-501) first reads the stream to its end, then returns it
QueryReturns ==
  /\ op = "query" /\ outcome.state = "pending" /\ driver \in { "anthropic", "mlx" }
  /\ IF driver = "mlx"
     THEN gen.pc = "threw" \/ (gen.pc = "ended" /\ resultP.state # "pending")
     ELSE resultP.state # "pending"
  /\ outcome' = IF (driver = "mlx" /\ gen.pc = "threw") \/ resultP.state = "rejected"
                THEN Threw
                ELSE [state |-> "returned", value |-> resultP.value]
  /\ UNCHANGED << pvars, xvars, driver, op, tools, spc, wire, acc, gen, yielded, resultP >>

StreamNext ==
  \/ CreateStream \/ CreateFails \/ GoogleQuery \/ GoogleQueryFails
  \/ ProcessAnthropicChunk \/ ProcessAnthropicEnd \/ ProcessAnthropicFails
  \/ ProcessGoogleChunk \/ ProcessGoogleEnd \/ ProcessGoogleFails
  \/ MlxYield \/ MlxEnd \/ MlxFails
  \/ ResultSettles \/ GenYield \/ GenSleep \/ GenWake \/ GenEnd \/ QueryReturns

StreamSpec == StreamInit /\ [][StreamNext]_vars

\* one step of the stream generator, whichever it is
GenStep == GenYield \/ GenSleep \/ GenWake \/ GenEnd

\* the consumer keeps reading the stream and the timers fire: the generator
\* takes a step whenever it can
StreamFairSpec == StreamInit /\ [][StreamNext]_vars /\ WF_vars(GenStep)

(***************************************************************************)
(* Notions the stream properties are stated with.                          *)
(***************************************************************************)
\* the members of a finite set of numbers in ascending order
RECURSIVE Ascending(_)
Ascending(S) ==
  IF S = {} THEN << >>
  ELSE << CHOOSE m \in S : \A x \in S : m <= x >>
         \o Ascending(S \ { CHOOSE m \in S : \A x \in S : m <= x })

\* the argument fragments the provider delivered for a content index, from
\* chunk k on, joined in arrival order
RECURSIVE FragmentsOf(_, _, _)
FragmentsOf(w, index, k) ==
  IF k > Len(w) THEN << >>
  ELSE (IF w[k].type = "input_json_delta" /\ w[k].index = index THEN w[k].text
        ELSE << >>) \o FragmentsOf(w, index, k + 1)

\* lexemes that belong to a tool call: delimiters, the call's JSON, argument
\* fragments
ToolCallMarkup ==
  { ToolCallStart[1], ToolCallEnd[1] }
  \cup { CallA[i] : i \in 1..Len(CallA) }
  \cup { FragLex[i] : i \in 1..Len(FragLex) }

\* the provider's chunk sequence is over, normally or by failing
ProviderEnded == spc \in { "done", "caught", "rejected" }

C8_StreamTextOnly ==
  \A i \in 1..Len(yielded) : \A j \in 1..Len(yielded[i]) :
    yielded[i][j] \notin ToolCallMarkup

(***************************************************************************)
(* C9.  Once the provider's chunk sequence has ended, normally or by       *)
(* failing, a consumer that keeps reading the stream of streamQuery        *)
(* receives every buffered chunk and then reaches the end of the stream.   *)
(***************************************************************************)
C9_StreamEnds ==
  (op = "streamQuery" /\ ProviderEnded)
    ~> (gen.pc \in { "ended", "threw" } /\ yielded = acc.chunks)

(***************************************************************************)
(* C10.  query never throws: when the provider call failed it returns the  *)
(* result with finishReason 'error' and empty content.                     *)
(***************************************************************************)
C10_QueryReturnsErrorResult ==
  op = "query" =>
    /\ outcome.state # "threw"
    /\ (spc \in { "failed", "rejected" } /\ outcome.state = "returned")
         => outcome.value = ErrorResult

(***************************************************************************)
(* Two streamQuery calls in flight on one driver instance                  *)
(* (anthropic-driver.ts 289-356, google-genai-driver.ts 487-559).  The     *)
(* provider of stream 2 delivers lexemes no chunk of stream 1 holds, so    *)
(* that every piece shows which stream it came from.                       *)
(***************************************************************************)
MaxConcChunks == 2

\* the lexeme the provider of stream s delivers where that of stream 1
\* delivers lex
StreamLex(s, lex) ==
  IF s = 1 THEN lex
  ELSE IF \E i \in 1..Len(TextLex) : TextLex[i] = lex
  THEN TextLex[(CHOOSE i \in 1..Len(TextLex) : TextLex[i] = lex) + Len(TextLex) \div 2]
  ELSE FragLex[(CHOOSE i \in 1..Len(FragLex) : FragLex[i] = lex) + Len(FragLex) \div 2]

\* the chunks the provider of stream s may deliver after w
ConcChunks(d, s, w) ==
  { [c EXCEPT !.text = [i \in 1..Len(c.text) |-> StreamLex(s, c.text[i])]] :
      c \in IF d = "anthropic"
            THEN { a \in AnthropicChunks(w) : a.index = 0 /\ a.stop_reason \in { "", "tool_use" } }
            ELSE { g \in GoogleChunks(w) : Len(g.calls) <= 1 /\ g.finishReason \in { "", "STOP" } } }

\* mutant: the accumulator is kept in the driver instance
AccumulatorOfInstance(s) == 1

\* the accumulator a stream works on: fullContent, chunks, toolCallDeltas /
\* accumulatedToolCalls are declared inside streamQuery, one set per call
AccumulatorOf(s) == s

\* the loop body, the end of processStream and the value of resultPromise of
\* the driver
OnChunk(d, a, chunk) ==
  IF d = "anthropic" THEN OnAnthropicChunk(a, chunk) ELSE OnGoogleChunk(a, chunk)

OnEnd(d, a) ==
  IF d = "anthropic" THEN [a EXCEPT !.streamConsumed = TRUE] ELSE OnGoogleEnd(a, FALSE)

ResultOf(d, a) == IF d = "anthropic" THEN AnthropicResult(a) ELSE GoogleResult(a)

ConcInit ==
  /\ ParserIdle /\ StreamIdle /\ RequestIdle
  /\ cdriver \in { "anthropic", "google" }
  /\ cstreams = [s \in Streams |-> NoStream]
  /\ caccs = [s \in Streams |-> EmptyAcc]

\* streamQuery is called: the request is accepted, the shared state of the
\* call is created and processStream starts
ConcStart(s) ==
  /\ cstreams[s].pc = "idle"
  /\ cstreams' = [cstreams EXCEPT ![s].pc = "streaming"]
  /\ caccs' = [caccs EXCEPT ![AccumulatorOf(s)] = EmptyAcc]
  /\ UNCHANGED << pvars, svars, rvars, cdriver >>

\* processStream of stream s takes the next chunk of its provider stream
ConcChunk(s) ==
  /\ cstreams[s].pc = "streaming" /\ Len(cstreams[s].wire) < MaxConcChunks
  /\ \E chunk \in ConcChunks(cdriver, s, cstreams[s].wire) :
       /\ cstreams' = [cstreams EXCEPT
                         ![s].wire = Append(@, chunk),
                         ![s].overlap = @ \/ \E o \in Streams \ { s } :
                                                /\ cstreams[o].pc = "streaming"
                                                /\ Len(cstreams[o].wire) > 0]
       /\ caccs' = [caccs EXCEPT ![AccumulatorOf(s)] = OnChunk(cdriver, @, chunk)]
  /\ UNCHANGED << pvars, svars, rvars, cdriver >>

\* the provider stream of stream s ends
ConcEnd(s) ==
  /\ cstreams[s].pc = "streaming"
  /\ cstreams' = [cstreams EXCEPT ![s].pc = "done"]
  /\ caccs' = [caccs EXCEPT ![AccumulatorOf(s)] = OnEnd(cdriver, @)]
  /\ UNCHANGED << pvars, svars, rvars, cdriver >>

\* streamGenerator of stream s yields the next cached chunk
ConcYield(s) ==
  /\ cstreams[s].pc \in { "streaming", "done" }
  /\ cstreams[s].index < Len(caccs[AccumulatorOf(s)].chunks)
  /\ cstreams' = [cstreams EXCEPT
                    ![s].yielded = Append(@, caccs[AccumulatorOf(s)].chunks[cstreams[s].index + 1]),
                    ![s].index = @ + 1]
  /\ UNCHANGED << pvars, svars, rvars, cdriver, caccs >>

\* resultPromise of stream s is fulfilled
ConcResult(s) ==
  /\ cstreams[s].pc = "done" /\ cstreams[s].result.state = "pending"
  /\ cstreams' = [cstreams EXCEPT
                    ![s].result = [state |-> "fulfilled",
                                   value |-> ResultOf(cdriver, caccs[AccumulatorOf(s)])]]
  /\ UNCHANGED << pvars, svars, rvars, cdriver, caccs >>

ConcNext ==
  \E s \in Streams :
    ConcStart(s) \/ ConcChunk(s) \/ ConcEnd(s) \/ ConcYield(s) \/ ConcResult(s)

ConcSpec == ConcInit /\ [][ConcNext]_vars

\* the accumulator a call ends with when its chunks are w from chunk k on
RECURSIVE RunAlone(_, _, _, _)
RunAlone(d, w, k, a) ==
  IF k > Len(w) THEN a ELSE RunAlone(d, w, k + 1, OnChunk(d, a, w[k]))

\* the lexemes the provider delivered in the chunks w
WireLexemes(w) == { w[i].text[1] : i \in { k \in 1..Len(w) : w[k].text # << >> } }

\* the lexemes a stream has handed to its caller: in the chunks yielded, in
\* the content and in the arguments of the tool calls of the result
HandedOut(st) ==
  { st.yielded[i][1] : i \in 1..Len(st.yielded) }
  \cup { st.result.value.content[i] : i \in 1..Len(st.result.value.content) }
  \cup UNION { { st.result.value.toolCalls[k].arguments.text[j] :
                   j \in 1..Len(st.result.value.toolCalls[k].arguments.text) } :
               k \in 1..Len(st.result.value.toolCalls) }

(***************************************************************************)
(* C11.  Each streamQuery call works on an accumulator of its own: with    *)
(* two streams in flight on one driver instance, what a stream yields and  *)
(* the result it gives are those of the stream running alone on its own    *)
(* chunks, and nothing the provider delivered on the other stream shows in *)
(* its yielded chunks, its content or its tool calls.                      *)
(***************************************************************************)
C11_StreamsKeepApart ==
  \A s \in Streams : \A o \in Streams \ { s } :
    /\ HandedOut(cstreams[s]) \cap WireLexemes(cstreams[o].wire) = {}
    /\ cstreams[s].yielded
         = SubSeq(RunAlone(cdriver, cstreams[s].wire, 1, EmptyAcc).chunks, 1, cstreams[s].index)
    /\ cstreams[s].result.state = "fulfilled" =>
         cstreams[s].result.value
           = ResultOf(cdriver, OnEnd(cdriver, RunAlone(cdriver, cstreams[s].wire, 1, EmptyAcc)))

\* both streams were in flight together, each took a chunk while the other
\* was in the middle of its chunks, and both have given text, a tool call
\* and their result
C11_Witness ==
  \A s \in Streams :
    /\ cstreams[s].overlap
    /\ cstreams[s].result.state = "fulfilled"
    /\ cstreams[s].result.value.hasToolCalls
    /\ Len(cstreams[s].yielded) > 0

(***************************************************************************)
(* The request a driver builds from the compiled prompt and from           *)
(* options.messages (ChatMessage of part_007 15-58).  A ChatMessage is     *)
(*   [role, content : text, hasToolCalls, toolCalls, toolCallId, name],    *)
(* name "" and toolCallId "" standing for an absent field; an element of   *)
(* prompt.data is a text element or a message element of the same fields.  *)
(* A message of the request is [role, blocks], a block (a Part of Gemini,  *)
(* a content block of Anthropic) is [type, text, id, name, value]; a       *)
(* content that is a plain string is one block of type "string".           *)
(***************************************************************************)
MaxMessages == 3

ChatMessage(role, content, toolCalls, toolCallId, name) ==
  [type |-> "message", role |-> role, content |-> content,
   hasToolCalls |-> toolCalls # << >>, toolCalls |-> toolCalls,
   toolCallId |-> toolCallId, name |-> name]

TextElement(content) ==
  [type |-> "text", role |-> "", content |-> content, hasToolCalls |-> FALSE,
   toolCalls |-> << >>, toolCallId |-> "", name |-> ""]

\* the id of a tool call as the string the caller holds
IdText(id) == IF id = CallId(0) THEN "call_0" ELSE "call_1"

\* the two calls the model issued in one response, in the order it issued
\* them (the toolCalls of a QueryResult, ids as extractToolCalls gives them)
IssuedCalls ==
  << [id |-> IdText(CallId(0)), name |-> "fn_a", arguments |-> JText(<< "{", "}" >>)],
     [id |-> IdText(CallId(1)), name |-> "fn_b",
      arguments |-> JText(<< "{", "\"x\":", "1", "}" >>)] >>

\* the content of a tool result message: JSON.stringify of a plain object, of
\* a string, of an array, or a text that is not JSON
ToolContents ==
  { << "{", "\"x\":", "1", "}" >>, << "\"sunny\"" >>, << "[", "1", "]" >>, << "hi" >> }

\* the messages a caller may put in options.messages
MessageSet ==
  { ChatMessage("user", << "hi" >>, << >>, "", ""),
    ChatMessage("assistant", << "hi" >>, IssuedCalls, "", ""),
    ChatMessage("tool", << "{", "}" >>, << >>, IssuedCalls[1].id, "") }
  \cup { ChatMessage("tool", c, << >>, IssuedCalls[1].id, IssuedCalls[1].name) :
           c \in { << "{", "\"x\":", "1", "}" >>, << "\"sunny\"" >> } }
  \cup { ChatMessage("tool", c, << >>, IssuedCalls[2].id, IssuedCalls[2].name) :
           c \in ToolContents }

RECURSIVE MessagesOf(_)
MessagesOf(k) ==
  IF k = 0 THEN { << >> }
  ELSE MessagesOf(k - 1)
       \cup { Append(ms, m) : ms \in { x \in MessagesOf(k - 1) : Len(x) = k - 1 },
                              m \in MessageSet }

\* the values of prompt.data
Prompts ==
  { << >>, << TextElement(<< "hi" >>) >>,
    << TextElement(<< "hi" >>),
       ChatMessage("tool", << "{", "}" >>, << >>, IssuedCalls[1].id, IssuedCalls[1].name) >>,
    << ChatMessage("tool", << "\"sunny\"" >>, << >>, IssuedCalls[2].id, "") >> }

Block(type, text, id, name, value) ==
  [type |-> type, text |-> text, id |-> id, name |-> name, value |-> value]

ProviderMessage(role, blocks) == [role |-> role, blocks |-> blocks]

\* the conversion threw (JSON.parse of a text that is not JSON)
Thrown == ProviderMessage("threw", << >>)

\* the type guards of part_007 49-58
hasToolCalls(message) == message.role = "assistant" /\ message.hasToolCalls

isToolResult(message) == message.role = "tool"

(***************************************************************************)
(* GoogleGenAIDriver and VertexAIDriver: chatMessageToContent              *)
(* (google-genai-driver.ts 183-217, vertexai-driver.ts 194-228).           *)
(***************************************************************************)
\* the functionCall parts of the toolCalls of a message, args being
\* JSON.parse(tc.function.arguments)
FunctionCallParts(toolCalls) ==
  [i \in 1..Len(toolCalls) |->
     Block("functionCall", << >>, "", toolCalls[i].name, JsonParse(toolCalls[i].arguments.text))]

\* a message whose blocks hold a value JSON.parse threw on was never built
OrThrown(message) ==
  IF \E i \in 1..Len(message.blocks) : message.blocks[i].value = JThrow THEN Thrown
  ELSE message

\* the ToolResultMessage branch (lines 199-209)
ToolResultContent(message) ==
  ProviderMessage("user",
    << Block("functionResponse", << >>, "",
             IF message.name # "" THEN message.name ELSE message.toolCallId,
             JsonParse(message.content)) >>)

chatMessageToContent(message) ==
  IF hasToolCalls(message)
  THEN OrThrown(ProviderMessage("model",
         (IF message.content # << >> THEN << Block("text", message.content, "", "", JUndef) >>
          ELSE << >>) \o FunctionCallParts(message.toolCalls)))
  ELSE IF isToolResult(message) THEN OrThrown(ToolResultContent(message))
  ELSE ProviderMessage(IF message.role = "assistant" THEN "model" ELSE "user",
                       << Block("text", message.content, "", "", JUndef) >>)

\* a text part / a string content
TextBlock(type, text) == Block(type, text, "", "", JUndef)

\* GoogleGenAIDriver.elementToContent (lines 156-178): a message element is
\* flattened to a text part under its role, any other element to a text part
\* without a role
elementToContent(element) ==
  IF element.type = "message"
  THEN ProviderMessage(IF element.role = "assistant" THEN "model" ELSE "user",
                       << TextBlock("text", element.content) >>)
  ELSE ProviderMessage("", << TextBlock("text", element.content) >>)

\* the contents of GoogleGenAIDriver.query and streamQuery (lines 300-310,
\* 426-436): the elements of the prompt, or the default content, followed by
\* the converted options.messages
GoogleContents(data, msgs) ==
  (IF Len(data) > 0 THEN [i \in 1..Len(data) |-> elementToContent(data[i])]
   ELSE << ProviderMessage("", << TextBlock("text", << "Please process according to the instructions." >>) >>) >>)
  \o [i \in 1..Len(msgs) |-> chatMessageToContent(msgs[i])]

\* textParts.join('\n')
RECURSIVE JoinLines(_, _)
JoinLines(texts, k) ==
  IF k > Len(texts) THEN << >>
  ELSE (IF k > 1 THEN << "\n" >> ELSE << >>) \o texts[k] \o JoinLines(texts, k + 1)

\* the flush of the accumulated text in processElements of
\* compiledPromptToVertexAI (lines 103-109, 142-147)
VertexFlush(textParts) ==
  IF Len(textParts) > 0
  THEN << ProviderMessage("user", << TextBlock("text", JoinLines(textParts, 1)) >>) >>
  ELSE << >>

\* processElements of compiledPromptToVertexAI from element k on (lines
\* 93-150); a message element is converted as chatMessageToContent does
RECURSIVE VertexProcess(_, _, _, _)
VertexProcess(elements, k, result, textParts) ==
  IF k > Len(elements) THEN result \o VertexFlush(textParts)
  ELSE IF elements[k].type = "message"
  THEN VertexProcess(elements, k + 1,
                     result \o VertexFlush(textParts) \o << chatMessageToContent(elements[k]) >>,
                     << >>)
  ELSE VertexProcess(elements, k + 1, result, Append(textParts, elements[k].content))

\* the contents of VertexAIDriver.query and streamQuery: those of
\* compiledPromptToVertexAI (lines 169-183, 427, 528); options.messages is
\* not read
VertexContents(data, found) ==
  IF Len(found) > 0 THEN found
  ELSE << ProviderMessage("user", << TextBlock("text", << "Please process according to the instructions." >>) >>) >>

compiledPromptToVertexAI(data) == VertexContents(data, VertexProcess(data, 1, << >>, << >>))

(***************************************************************************)
(* AnthropicDriver: chatMessageToAnthropic (anthropic-driver.ts 87-120)    *)
(* and compiledPromptToAnthropic (125-242).                                *)
(***************************************************************************)
\* mutant: a text block with the content is put before the tool_result block
AnthropicToolResultTextFirst(toolCallId, content) ==
  ProviderMessage("user",
    << TextBlock("text", content), Block("tool_result", content, toolCallId, "", JUndef) >>)

\* the user message built from a tool result (lines 105-112, 151-154)
AnthropicToolResult(toolCallId, content) ==
  ProviderMessage("user", << Block("tool_result", content, toolCallId, "", JUndef) >>)

\* the blocks of an assistant message with tool calls (lines 90-101, 156-160)
AnthropicToolUse(message) ==
  OrThrown(ProviderMessage("assistant",
    (IF message.content # << >> THEN << TextBlock("text", message.content) >> ELSE << >>)
    \o [i \in 1..Len(message.toolCalls) |->
          Block("tool_use", << >>, message.toolCalls[i].id, message.toolCalls[i].name,
                JsonParse(message.toolCalls[i].arguments.text))]))

chatMessageToAnthropic(message) ==
  IF hasToolCalls(message) THEN AnthropicToolUse(message)
  ELSE IF isToolResult(message) THEN AnthropicToolResult(message.toolCallId, message.content)
  ELSE ProviderMessage(message.role, << TextBlock("string", message.content) >>)

\* processElements of compiledPromptToAnthropic from element k on (lines
\* 135-193): message elements are pushed to messages as they are met, the
\* other elements are collected as text
RECURSIVE AnthropicProcess(_, _, _, _)
AnthropicProcess(elements, k, msgs, content) ==
  IF k > Len(elements) THEN [messages |-> msgs, content |-> JoinLines(content, 1)]
  ELSE IF elements[k].type # "message"
  THEN AnthropicProcess(elements, k + 1, msgs, Append(content, elements[k].content))
  ELSE IF elements[k].role = "tool"
  THEN AnthropicProcess(elements, k + 1,
         Append(msgs, AnthropicToolResult(elements[k].toolCallId, elements[k].content)), content)
  ELSE IF elements[k].hasToolCalls
  THEN AnthropicProcess(elements, k + 1, Append(msgs, AnthropicToolUse(elements[k])), content)
  ELSE IF elements[k].role = "system"
  THEN AnthropicProcess(elements, k + 1, msgs, content)
  ELSE AnthropicProcess(elements, k + 1,
         Append(msgs, ProviderMessage(elements[k].role,
                                      << TextBlock("string", elements[k].content) >>)), content)

\* the data text is pushed as a user message when it is not empty (lines
\* 210-215)
AnthropicWithData(p) ==
  IF p.content # << >>
  THEN Append(p.messages, ProviderMessage("user", << TextBlock("string", p.content) >>))
  ELSE p.messages

\* the alternation fixes and the default message (lines 225-239)
AnthropicFixed(msgs) ==
  IF Len(msgs) = 0
  THEN << ProviderMessage("user", << TextBlock("string", << "Please respond according to the instructions." >>) >>) >>
  ELSE (IF msgs[1].role # "user"
        THEN << ProviderMessage("user", << TextBlock("string", << "Continue." >>) >>) >>
        ELSE << >>)
       \o msgs
       \o (IF msgs[Len(msgs)].role = "assistant"
           THEN << ProviderMessage("user", << TextBlock("string", << "Continue." >>) >>) >>
           ELSE << >>)

\* the messages of the params of AnthropicDriver.streamQuery (lines 261-277);
\* options.messages is not read
compiledPromptToAnthropic(data) ==
  AnthropicFixed(AnthropicWithData(AnthropicProcess(data, 1, << >>, << >>)))

(***************************************************************************)
(* The building of a request as a state machine: the driver's ChatMessage  *)
(* conversion applied to each of options.messages, and the contents /      *)
(* messages the driver hands to the client of its provider.                *)
(***************************************************************************)
RequestInit ==
  /\ ParserIdle /\ StreamIdle /\ ConcIdle
  /\ rdriver \in { "anthropic", "google", "vertex" }
  /\ prompt \in Prompts
  /\ messages \in MessagesOf(MaxMessages)
  /\ converted = << >>
  /\ request = NoRequest
  /\ apiStrategy = "none"

\* the request with these contents is sent, unless building them threw
Built(contents) ==
  IF \E i \in 1..Len(contents) : contents[i] = Thrown
  THEN [state |-> "threw", contents |-> << >>]
  ELSE [state |-> "built", contents |-> contents]

\* chatMessageToAnthropic / chatMessageToContent on each message
ConvertMessages ==
  /\ rdriver # "none" /\ converted = << >> /\ Len(messages) > 0
  /\ converted' = [i \in 1..Len(messages) |->
                     IF rdriver = "anthropic" THEN chatMessageToAnthropic(messages[i])
                     ELSE chatMessageToContent(messages[i])]
  /\ UNCHANGED << pvars, svars, cvars, rdriver, prompt, messages, request, apiStrategy >>

\* AnthropicDriver.streamQuery up to messages.create (lines 256-287)
AnthropicBuild ==
  /\ rdriver = "anthropic" /\ request.state = "none"
  /\ request' = Built(compiledPromptToAnthropic(prompt))
  /\ UNCHANGED << pvars, svars, cvars, rdriver, prompt, messages, converted, apiStrategy >>

\* GoogleGenAIDriver.query / streamQuery up to generateContent (lines
\* 292-359, 420-485)
GoogleBuild ==
  /\ rdriver = "google" /\ request.state = "none"
  /\ request' = Built(GoogleContents(prompt, messages))
  /\ UNCHANGED << pvars, svars, cvars, rdriver, prompt, messages, converted, apiStrategy >>

\* VertexAIDriver.query / streamQuery up to generateContent (lines 422-457,
\* 525-556)
VertexBuild ==
  /\ rdriver = "vertex" /\ request.state = "none"
  /\ request' = Built(compiledPromptToVertexAI(prompt))
  /\ UNCHANGED << pvars, svars, cvars, rdriver, prompt, messages, converted, apiStrategy >>

RequestNext == ConvertMessages \/ AnthropicBuild \/ GoogleBuild \/ VertexBuild

RequestSpec == RequestInit /\ [][RequestNext]_vars

(***************************************************************************)
(* Notions the request properties are stated with.                         *)
(***************************************************************************)
\* the blocks of the messages of a request, in order
RECURSIVE BlocksOf(_, _)
BlocksOf(contents, k) ==
  IF k > Len(contents) THEN << >> ELSE contents[k].blocks \o BlocksOf(contents, k + 1)

\* the calls the model issued, in the order it issued them: the toolCalls of
\* the assistant messages
RECURSIVE CallsIssued(_, _)
CallsIssued(msgs, k) ==
  IF k > Len(msgs) THEN << >>
  ELSE (IF hasToolCalls(msgs[k]) THEN msgs[k].toolCalls ELSE << >>) \o CallsIssued(msgs, k + 1)

\* the tool results handed to the driver, in the order given
ResultsGiven(msgs) == SelectSeq(msgs, isToolResult)

IsFunctionResponse(block) == block.type = "functionResponse"

\* the tool results answer the calls issued, one result for each call, given
\* after the message that issued the calls, in whatever order
Answered(msgs) ==
  /\ Len(msgs) > 0 /\ hasToolCalls(msgs[1])
  /\ Len(ResultsGiven(msgs)) = Len(CallsIssued(msgs, 1))
  /\ \A i \in 1..Len(CallsIssued(msgs, 1)) :
       \E k \in 1..Len(msgs) : isToolResult(msgs[k]) /\ msgs[k].toolCallId = CallsIssued(msgs, 1)[i].id

\* the result given for a call
ResultFor(msgs, id) ==
  msgs[CHOOSE k \in 1..Len(msgs) : isToolResult(msgs[k]) /\ msgs[k].toolCallId = id]

\* prompt.data holds no message element
PlainPrompt == \A i \in 1..Len(prompt) : prompt[i].type # "message"

GeminiStyle == rdriver \in { "google", "vertex" }

(***************************************************************************)
(* C12.  In the request of a Gemini-style driver the functionResponse      *)
(* parts come in the order in which the model issued the calls they        *)
(* answer, whatever order the tool results were given in.                  *)
(***************************************************************************)
C12_ResponsesInCallOrder ==
  (GeminiStyle /\ request.state = "built" /\ PlainPrompt /\ Answered(messages)) =>
    SelectSeq(BlocksOf(request.contents, 1), IsFunctionResponse)
      = [i \in 1..Len(CallsIssued(messages, 1)) |->
           ToolResultContent(ResultFor(messages, CallsIssued(messages, 1)[i].id)).blocks[1]]

\* the same for the GoogleGenAI driver when the results are given in the
\* order of the calls: then the parts are in that order
C12_GivenOrderKept ==
  (rdriver = "google" /\ request.state = "built" /\ PlainPrompt) =>
    SelectSeq(BlocksOf(request.contents, 1), IsFunctionResponse)
      = [i \in 1..Len(ResultsGiven(messages)) |->
           ToolResultContent(ResultsGiven(messages)[i]).blocks[1]]

\* the ids the caller's tool calls and tool results hold
IdsOf(msgs) ==
  { msgs[k].toolCallId : k \in { j \in 1..Len(msgs) : isToolResult(msgs[j]) } }
  \cup UNION { { msgs[k].toolCalls[i].id : i \in 1..Len(msgs[k].toolCalls) } : k \in 1..Len(msgs) }

\* the block carries the id in one of its fields
CarriesId(block, ids) ==
  \/ block.name \in ids
  \/ block.id \in ids
  \/ \E j \in 1..Len(block.text) : block.text[j] \in ids

(***************************************************************************)
(* C14.  No id of a tool call or of a tool result (a synthesized           *)
(* call_<index> included) is in any field of the request a Gemini-style    *)
(* driver sends.                                                           *)
(***************************************************************************)
C14_NoIdInRequest ==
  (GeminiStyle /\ request.state = "built") =>
    \A k \in 1..Len(request.contents) : \A i \in 1..Len(request.contents[k].blocks) :
      ~ CarriesId(request.contents[k].blocks[i], IdsOf(messages) \cup IdsOf(prompt))

\* the id is carried only in the name of a functionResponse, and only for a
\* tool result that has no name
C14_OnlyNamelessLeak ==
  (GeminiStyle /\ request.state = "built") =>
    \A k \in 1..Len(request.contents) : \A i \in 1..Len(request.contents[k].blocks) :
      CarriesId(request.contents[k].blocks[i], IdsOf(messages) \cup IdsOf(prompt)) =>
        /\ request.contents[k].blocks[i].type = "functionResponse"
        /\ \E m \in { messages[j] : j \in 1..Len(messages) } \cup { prompt[j] : j \in 1..Len(prompt) } :
             isToolResult(m) /\ m.name = "" /\ m.toolCallId = request.contents[k].blocks[i].name

\* the response the provider accepts for a tool result value: a plain
\* object as it is, any other value as { output: value }
ResponseFor(value) ==
  IF value.t = "obj" THEN value ELSE JObj(<< [k |-> "output", v |-> value] >>)

\* the tool results among options.messages, by position
ToolResultsAt == { i \in 1..Len(messages) : isToolResult(messages[i]) }

(***************************************************************************)
(* C15.  A Gemini-style driver converts every tool result without failing, *)
(* and the response it sends is an object: the value itself when the value *)
(* is a plain object, { output: value } for any other value.               *)
(***************************************************************************)
C15_ResponseIsObject ==
  (GeminiStyle /\ converted # << >>) =>
    \A i \in ToolResultsAt :
      /\ converted[i] # Thrown
      /\ converted[i].blocks[1].value.t = "obj"
      /\ JsonParse(messages[i].content) # JThrow =>
           converted[i].blocks[1].value = ResponseFor(JsonParse(messages[i].content))

\* what the code does: the response is JSON.parse(content) as it is, and the
\* conversion throws when the content is not JSON
C15_ResponseIsParsedContent ==
  (GeminiStyle /\ converted # << >>) =>
    \A i \in ToolResultsAt :
      IF JsonParse(messages[i].content) = JThrow THEN converted[i] = Thrown
      ELSE converted[i].blocks[1].value = JsonParse(messages[i].content)

\* the positions of the blocks of a type in a provider message
BlocksAt(message, type) ==
  { i \in 1..Len(message.blocks) : message.blocks[i].type = type }

\* the message has its tool_result block first (index 0 of the content
\* array) and no text block before a tool_result block
ToolResultFirst(message) ==
  BlocksAt(message, "tool_result") # {} =>
    /\ message.role = "user"
    /\ 1 \in BlocksAt(message, "tool_result")
    /\ \A i \in BlocksAt(message, "text") \cup BlocksAt(message, "string") :
         \A j \in BlocksAt(message, "tool_result") : j < i

\* the provider messages holding a tool_result block
WithToolResult(msgs) ==
  { k \in 1..Len(msgs) : BlocksAt(msgs[k], "tool_result") # {} }

(***************************************************************************)
(* C16.  Every user message the Anthropic driver builds from a tool result *)
(* (by chatMessageToAnthropic from a ToolResultMessage, by                 *)
(* compiledPromptToAnthropic from a tool message of the prompt) has the    *)
(* tool_result block at index 0 of its content and no text block before    *)
(* it.                                                                     *)
(***************************************************************************)
C16_ToolResultFirst ==
  rdriver = "anthropic" =>
    /\ \A k \in 1..Len(converted) : ToolResultFirst(converted[k])
    /\ \A k \in 1..Len(request.contents) : ToolResultFirst(request.contents[k])
    /\ \A i \in ToolResultsAt : converted # << >> => 1 \in BlocksAt(converted[i], "tool_result")
    /\ request.state = "built" =>
         Cardinality(WithToolResult(request.contents))
           = Cardinality({ k \in 1..Len(prompt) : isToolResult(prompt[k]) })

\* both conversions have built a message from a tool result, one of them
\* in a request that also holds text
C16_Witness ==
  /\ rdriver = "anthropic"
  /\ WithToolResult(converted) # {}
  /\ request.state = "built"
  /\ WithToolResult(request.contents) # {}
  /\ Len(request.contents) > 1

\* the messages the driver generates from the compiled prompt alone
FromPrompt(d, data) ==
  IF d = "anthropic" THEN compiledPromptToAnthropic(data)
  ELSE IF d = "vertex" THEN compiledPromptToVertexAI(data)
  ELSE GoogleContents(data, << >>)

\* options.messages in the provider's format, in the order given
FromMessages(d, msgs) ==
  [i \in 1..Len(msgs) |->
     IF d = "anthropic" THEN chatMessageToAnthropic(msgs[i])
     ELSE chatMessageToContent(msgs[i])]

\* the request holds the messages of the prompt followed by options.messages
MessagesAppended ==
  request.contents = FromPrompt(rdriver, prompt) \o FromMessages(rdriver, messages)

(***************************************************************************)
(* C19.  The request a driver sends holds the messages generated from the  *)
(* compiled prompt followed by options.messages, each converted to the     *)
(* provider's format, in the order given.                                  *)
(***************************************************************************)
C19_MessagesAppended ==
  (request.state = "built" /\ \A i \in 1..Len(messages) : FromMessages(rdriver, messages)[i] # Thrown)
    => MessagesAppended

\* the GoogleGenAI driver does append them
C19_GoogleAppends ==
  (rdriver = "google" /\ request.state = "built") => MessagesAppended

\* the Anthropic and VertexAI drivers send the messages of the prompt only
C19_OthersSendPromptOnly ==
  (rdriver \in { "anthropic", "vertex" } /\ request.state = "built") =>
    request.contents = FromPrompt(rdriver, prompt)

(***************************************************************************)
(* VertexAIDriver (vertexai-driver.ts): extractToolCalls 373-390, query    *)
(* 418-516, streamQuery 521-621.  The driver keeps no accumulator: the     *)
(* stream is read from streamingResult.stream and the result is built from *)
(* streamingResult.response, the response the client aggregates from the   *)
(* chunks it received.                                                     *)
(***************************************************************************)
MaxVertexChunks == 3

\* a part of a candidate's content: a text part, or a functionCall part
TextPart(text) == [text |-> text, name |-> "", args |-> JUndef]

CallPart(name, args) == [text |-> << >>, name |-> name, args |-> args]

\* 'functionCall' in part && part.functionCall
IsCallPart(part) == part.name # ""

\* a chunk of the stream, or a response: the parts of the content of its
\* first candidate and the candidate's finishReason ("" when there is none)
VertexChunk(parts, finishReason) == [parts |-> parts, finishReason |-> finishReason]

\* what the n-th chunk may hold
VertexParts(n) ==
  { << TextPart(<< TextLex[n] >>) >>,
    << CallPart("fn_a", ArgsX) >>,
    << TextPart(<< TextLex[n] >>), CallPart("fn_a", JUndef) >>,
    << CallPart("fn_b", EmptyObj), TextPart(<< TextLex[n] >>) >> }

\* the chunks the provider may deliver after w; the chunk that carries the
\* finish reason is the last one
VertexChunks(w) ==
  IF \E i \in 1..Len(w) : w[i].finishReason # "" THEN {}
  ELSE { VertexChunk(parts, "") : parts \in VertexParts(Len(w) + 1) }
       \cup { VertexChunk(<< >>, r) : r \in { "STOP", "MAX_TOKENS" } }

\* the loop of extractToolCalls from part k on (lines 376-389): the id is
\* always the position of the call among the calls of the response
RECURSIVE VertexExtractFrom(_, _, _)
VertexExtractFrom(parts, k, toolCalls) ==
  IF k > Len(parts) THEN toolCalls
  ELSE VertexExtractFrom(parts, k + 1,
         IF IsCallPart(parts[k])
         THEN Append(toolCalls,
                [id |-> CallId(Len(toolCalls)),
                 name |-> parts[k].name,
                 arguments |-> JText(JsonStringify(IF parts[k].args = JUndef THEN EmptyObj
                                                   ELSE parts[k].args))])
         ELSE toolCalls)

\* candidate.content.parts.map(part => part.text || '').join('')
RECURSIVE VertexText(_, _)
VertexText(parts, k) ==
  IF k > Len(parts) THEN << >> ELSE parts[k].text \o VertexText(parts, k + 1)

\* the response the client aggregates from the chunks of a stream: the parts
\* of the chunks in the order received, the last finishReason
RECURSIVE AggregateParts(_, _)
AggregateParts(w, k) ==
  IF k > Len(w) THEN << >> ELSE w[k].parts \o AggregateParts(w, k + 1)

AggregateResponse(w) ==
  VertexChunk(AggregateParts(w, 1), IF Len(w) > 0 THEN w[Len(w)].finishReason ELSE "")

\* what query and resultPromise make of a response, toolCalls being what
\* extractToolCalls gave (lines 459-499, 570-614); hasCandidate is false
\* when the response has no candidate or the candidate no content
VertexResultOf(response, hasCandidate, toolCalls) ==
  IF ~hasCandidate THEN QueryResult(<< >>, FALSE, << >>, "error")
  ELSE QueryResult(VertexText(response.parts, 1), Len(toolCalls) > 0, toolCalls,
                   IF Len(toolCalls) > 0 THEN "tool_calls"
                   ELSE finishReasonMap(IF response.finishReason # "" THEN response.finishReason
                                        ELSE "error"))

VertexResult(response, hasCandidate) ==
  VertexResultOf(response, hasCandidate, VertexExtractFrom(response.parts, 1, << >>))

\* the responses generateContent may give to query
VertexResponses ==
  { VertexChunk(parts, r) : parts \in VertexParts(1) \cup { << >> }, r \in { "STOP", "MAX_TOKENS", "" } }

VertexInit ==
  /\ ParserIdle /\ ConcIdle /\ RequestIdle
  /\ driver = "vertex" /\ op \in { "query", "streamQuery" } /\ tools = TRUE
  /\ spc = "call"
  /\ wire = << >> /\ acc = EmptyAcc /\ gen = GenIdle /\ yielded = << >>
  /\ resultP = Pending /\ outcome = Pending

\* query: generateContent answers (lines 455-499)
VertexQuery ==
  /\ driver = "vertex" /\ op = "query" /\ spc = "call"
  /\ \E response \in VertexResponses :
       /\ wire' = << response >>
       /\ outcome' = [state |-> "returned", value |-> VertexResult(response, response.parts # << >>)]
  /\ spc' = "done"
  /\ UNCHANGED << pvars, xvars, driver, op, tools, acc, gen, yielded, resultP >>

\* query: generateContent throws, the catch block returns (lines 500-515)
VertexQueryFails ==
  /\ driver = "vertex" /\ op = "query" /\ spc = "call"
  /\ spc' = "failed"
  /\ outcome' = [state |-> "returned", value |-> ErrorResult]
  /\ UNCHANGED << pvars, xvars, driver, op, tools, wire, acc, gen, yielded, resultP >>

\* streamQuery: generateContentStream answers and { stream, result } is
\* returned (lines 556, 617-620)
VertexCreateStream ==
  /\ driver = "vertex" /\ op = "streamQuery" /\ spc = "call"
  /\ spc' = "streaming"
  /\ gen' = [pc |-> "running", index |-> 0]
  /\ outcome' = [state |-> "stream", value |-> NoValue]
  /\ UNCHANGED << pvars, xvars, driver, op, tools, wire, acc, yielded, resultP >>

\* streamQuery: the await of generateContentStream throws (line 556)
VertexCreateFails ==
  /\ driver = "vertex" /\ op = "streamQuery" /\ spc = "call"
  /\ spc' = "failed"
  /\ outcome' = Threw
  /\ UNCHANGED << pvars, xvars, driver, op, tools, wire, acc, gen, yielded, resultP >>

\* the client receives the next chunk from the provider
VertexReceive ==
  /\ driver = "vertex" /\ spc = "streaming" /\ Len(wire) < MaxVertexChunks
  /\ \E chunk \in VertexChunks(wire) : wire' = Append(wire, chunk)
  /\ UNCHANGED << pvars, xvars, driver, op, tools, spc, acc, gen, yielded, resultP, outcome >>

\* the provider's chunk sequence ends
VertexEnd ==
  /\ driver = "vertex" /\ spc = "streaming"
  /\ spc' = "done"
  /\ UNCHANGED << pvars, xvars, driver, op, tools, wire, acc, gen, yielded, resultP, outcome >>

\* the provider's chunk sequence fails
VertexFails ==
  /\ driver = "vertex" /\ spc = "streaming"
  /\ spc' = "rejected"
  /\ UNCHANGED << pvars, xvars, driver, op, tools, wire, acc, gen, yielded, resultP, outcome >>

\* streamGenerator (lines 559-565): the loop takes the next chunk and yields
\* the text of its first part, when the chunk has a first part with text
VertexGenNext ==
  /\ driver = "vertex" /\ gen.pc = "running" /\ gen.index < Len(wire)
  /\ yielded' = IF Len(wire[gen.index + 1].parts) > 0 /\ wire[gen.index + 1].parts[1].text # << >>
                THEN Append(yielded, wire[gen.index + 1].parts[1].text)
                ELSE yielded
  /\ gen' = [gen EXCEPT !.index = @ + 1]
  /\ UNCHANGED << pvars, xvars, driver, op, tools, spc, wire, acc, resultP, outcome >>

\* streamGenerator: streamingResult.stream is at its end, or throws
VertexGenEnd ==
  /\ driver = "vertex" /\ gen.pc = "running" /\ gen.index = Len(wire)
  /\ spc \in { "done", "rejected" }
  /\ gen' = [gen EXCEPT !.pc = IF spc = "done" THEN "ended" ELSE "threw"]
  /\ UNCHANGED << pvars, xvars, driver, op, tools, spc, wire, acc, yielded, resultP, outcome >>

\* resultPromise (lines 568-615): streamingResult.response settles
VertexResultSettles ==
  /\ driver = "vertex" /\ resultP.state = "pending" /\ spc \in { "done", "rejected" }
  /\ resultP' = IF spc = "rejected" THEN [state |-> "rejected", value |-> NoValue]
                ELSE [state |-> "fulfilled",
                      value |-> VertexResult(AggregateResponse(wire), Len(wire) > 0)]
  /\ UNCHANGED << pvars, xvars, driver, op, tools, spc, wire, acc, gen, yielded, outcome >>

VertexNext ==
  \/ VertexQuery \/ VertexQueryFails \/ VertexCreateStream \/ VertexCreateFails
  \/ VertexReceive \/ VertexEnd \/ VertexFails
  \/ VertexGenNext \/ VertexGenEnd \/ VertexResultSettles

VertexSpec == VertexInit /\ [][VertexNext]_vars

(***************************************************************************)
(* Notions the properties of the returned tool calls are stated with.      *)
(***************************************************************************)
\* the results the call has handed to its caller: the value resultPromise
\* was fulfilled with, the value query returned
ReturnedResults ==
  (IF resultP.state = "fulfilled" THEN { resultP.value } ELSE { })
  \cup (IF outcome.state = "returned" THEN { outcome.value } ELSE { })

\* the tool calls handed to the caller
ReturnedCalls ==
  UNION { { r.toolCalls[i] : i \in 1..Len(r.toolCalls) } : r \in ReturnedResults }

\* the functionCall parts the provider delivered, in order, from chunk k on
RECURSIVE WireCalls(_, _)
WireCalls(w, k) == IF k > Len(w) THEN << >> ELSE w[k].calls \o WireCalls(w, k + 1)

(***************************************************************************)
(* C13.  Every tool call of a returned result has a non-empty id, the ids  *)
(* of one result are pairwise distinct, and a call the provider gave no id *)
(* has the id call_<index>, index being its position among the calls of    *)
(* the response.                                                           *)
(***************************************************************************)
C13_IdsDistinct ==
  \A r \in ReturnedResults :
    /\ \A i \in 1..Len(r.toolCalls) : r.toolCalls[i].id # << >>
    /\ \A i, j \in 1..Len(r.toolCalls) : i # j => r.toolCalls[i].id # r.toolCalls[j].id
    /\ driver = "google" =>
         \A i \in 1..Len(r.toolCalls) :
           WireCalls(wire, 1)[i].id = << >> => r.toolCalls[i].id = CallId(i - 1)

\* the same for what query returns, and for every driver but GoogleGenAI
C13_IdsDistinctElsewhere ==
  (op = "query" \/ driver # "google") =>
    \A r \in ReturnedResults :
      /\ \A i \in 1..Len(r.toolCalls) : r.toolCalls[i].id # << >>
      /\ \A i, j \in 1..Len(r.toolCalls) : i # j => r.toolCalls[i].id # r.toolCalls[j].id
      /\ driver = "google" =>
           \A i \in 1..Len(r.toolCalls) :
             WireCalls(wire, 1)[i].id = << >> => r.toolCalls[i].id = CallId(i - 1)

(***************************************************************************)
(* AnthropicDriver.streamQuery on a stream whose input_json_delta chunks   *)
(* carry pieces of JSON text, so that the string accumulated for a call is *)
(* valid JSON, or is not.                                                  *)
(***************************************************************************)
MaxArgChunks == 4

\* the partial_json a chunk may carry
ArgFragments == { << "{", "}" >>, << "{" >>, << "\"x\":", "1", "}" >> }

\* the chunks the provider may deliver after w
ArgChunks(w) ==
  IF \E i \in 1..Len(w) : w[i].type = "message_delta" THEN {}
  ELSE { AnthropicEvent("text_delta", 0, << TextLex[Len(w) + 1] >>, "") }
       \cup { AnthropicEvent("content_block_start", i, << >>, "") :
                i \in { k \in 0..MaxIndex : \A s \in Started(w) : k > s } }
       \cup { AnthropicEvent("input_json_delta", i, f, "") :
                i \in Started(w), f \in ArgFragments }
       \cup { AnthropicEvent("message_delta", 0, << >>, "tool_use") }

ArgInit ==
  /\ ParserIdle /\ ConcIdle /\ RequestIdle
  /\ driver = "anthropic" /\ op = "streamQuery" /\ tools = TRUE
  /\ spc = "call"
  /\ wire = << >> /\ acc = EmptyAcc /\ gen = GenIdle /\ yielded = << >>
  /\ resultP = Pending /\ outcome = Pending

\* processStream: the for await loop takes the next chunk
ProcessArgChunk ==
  /\ driver = "anthropic" /\ spc = "streaming" /\ Len(wire) < MaxArgChunks
  /\ \E chunk \in ArgChunks(wire) :
       /\ wire' = Append(wire, chunk)
       /\ acc' = OnAnthropicChunk(acc, chunk)
  /\ UNCHANGED << pvars, xvars, driver, op, tools, spc, gen, yielded, resultP, outcome >>

ArgNext ==
  \/ CreateStream \/ CreateFails
  \/ ProcessArgChunk \/ ProcessAnthropicEnd \/ ProcessAnthropicFails
  \/ ResultSettles \/ GenYield \/ GenSleep \/ GenWake \/ GenEnd

ArgSpec == ArgInit /\ [][ArgNext]_vars

\* the string accumulated for the k-th tool_use block of the stream
BufferOf(k) == FragmentsOf(wire, Ascending(Started(wire))[k], 1)

\* the call carries the failure of its arguments instead of arguments
Failed(call) == call.arguments = JThrow

\* the call carries the arguments the provider sent for it
Intact(call, buffer) ==
  call.arguments = JText(buffer) \/ call.arguments = JsonParse(buffer)

(***************************************************************************)
(* C17.  When the stream has ended, a call whose accumulated argument      *)
(* string is not valid JSON is returned as failed, every other call of the *)
(* response is returned with its arguments, and the result itself is       *)
(* fulfilled.                                                              *)
(***************************************************************************)
C17_FailureForThatCallOnly ==
  (driver = "anthropic" /\ spc = "done" /\ resultP.state # "pending") =>
    /\ resultP.state = "fulfilled"
    /\ Len(resultP.value.toolCalls) = Cardinality(Started(wire))
    /\ \A k \in 1..Len(resultP.value.toolCalls) :
         IF JsonParse(BufferOf(k)) = JThrow THEN Failed(resultP.value.toolCalls[k])
         ELSE Intact(resultP.value.toolCalls[k], BufferOf(k))

\* what the code does: every call is returned with the accumulated string as
\* its arguments, valid JSON or not, and nothing reports a failure
C17_BufferReturnedAsIs ==
  (driver = "anthropic" /\ spc = "done" /\ resultP.state # "pending") =>
    /\ resultP.state = "fulfilled"
    /\ Len(resultP.value.toolCalls) = Cardinality(Started(wire))
    /\ \A k \in 1..Len(resultP.value.toolCalls) :
         resultP.value.toolCalls[k].arguments = JText(BufferOf(k))

\* a finished stream of two calls, the first with valid arguments, the
\* second with a string that is cut short
C17_CutShort ==
  /\ driver = "anthropic" /\ resultP.state = "fulfilled"
  /\ Len(resultP.value.toolCalls) = 2
  /\ JsonParse(BufferOf(1)) # JThrow
  /\ BufferOf(2) = << "{" >>

(***************************************************************************)
(* C18.  The arguments of every tool call handed to the caller are a       *)
(* parsed mapping (an object), never a string of JSON text.                *)
(***************************************************************************)
C18_ArgumentsParsed ==
  \A call \in ReturnedCalls : call.arguments.t = "obj"

\* what the code does: the Anthropic, GoogleGenAI and VertexAI drivers hand
\* over a string, the Mlx driver an object
C18_StringUnlessMlx ==
  \A call \in ReturnedCalls :
    call.arguments.t = IF driver = "mlx" THEN "obj" ELSE "text"

\* the Mlx driver has returned a tool call
C18_MlxReturnsCall == driver = "mlx" /\ ReturnedCalls # {}

\* the text parts of the parts of a chunk, in order
RECURSIVE PartTexts(_, _)
PartTexts(parts, k) ==
  IF k > Len(parts) THEN << >>
  ELSE (IF parts[k].text # << >> THEN << parts[k].text >> ELSE << >>) \o PartTexts(parts, k + 1)

\* the text fragments in a chunk of the provider of driver d
ChunkTexts(d, chunk) ==
  CASE d = "anthropic" -> IF chunk.type = "text_delta" THEN << chunk.text >> ELSE << >>
    [] d = "google" -> IF chunk.text # << >> THEN << chunk.text >> ELSE << >>
    [] d = "vertex" -> PartTexts(chunk.parts, 1)
    [] OTHER -> << chunk >>

\* the text fragments the provider delivered, in the order delivered, from
\* chunk k on
RECURSIVE ReceivedTexts(_, _, _)
ReceivedTexts(d, w, k) ==
  IF k > Len(w) THEN << >> ELSE ChunkTexts(d, w[k]) \o ReceivedTexts(d, w, k + 1)

IsPrefix(s, t) == Len(s) <= Len(t) /\ s = SubSeq(t, 1, Len(s))

(***************************************************************************)
(* C20.  What the text stream of streamQuery has yielded is, in order, the *)
(* text fragments received from the provider, each once: at any moment a   *)
(* prefix of them, and all of them once the stream has reached its end.    *)
(***************************************************************************)
C20_TextInDeliveryOrder ==
  op = "streamQuery" =>
    /\ IsPrefix(yielded, ReceivedTexts(driver, wire, 1))
    /\ gen.pc = "ended" => yielded = ReceivedTexts(driver, wire, 1)

\* what the VertexAI stream yields: of every chunk read, the text of the
\* first part and nothing else
C20_FirstPartOnly ==
  (driver = "vertex" /\ op = "streamQuery") =>
    yielded = ReceivedTexts("vertex",
                [i \in 1..gen.index |->
                   VertexChunk(IF Len(wire[i].parts) > 0 THEN << wire[i].parts[1] >> ELSE << >>, "")],
                1)

\* a VertexAI stream read to its end, of which a text fragment was not
\* yielded
C20_TextLost ==
  /\ driver = "vertex" /\ gen.pc = "ended"
  /\ Len(yielded) < Len(ReceivedTexts("vertex", wire, 1))

(***************************************************************************)
(* formatToolDefinitionsAsText (tool-call-parser.ts 431-486): the call     *)
(* syntax the instruction tells the model to emit, and parseToolCalls on   *)
(* a response that follows the instruction to the letter.                  *)
(***************************************************************************)
\* the JSON line of the instruction (lines 470, 478, 483)
ExampleJson ==
  << "{", "\"name\":", "\"tool_name\"", ",", "\"arguments\":",
     "{", "\"param\":", "\"value\"", "}", "}" >>

\* the lines pushed after 'To call a tool, respond with:', joined by '\n'
ExampleLines(start, end) == start \o << "\n" >> \o ExampleJson \o << "\n" >> \o end

\* the choice of the delimiters (lines 467-486): the template delimiters,
\* else the special token pair tool_call, else the labelled code block
formatToolDefinitionsAsText(specialTokens, toolCallFormat) ==
  IF toolCallFormat.call_start # << >> /\ toolCallFormat.call_end # << >>
  THEN ExampleLines(toolCallFormat.call_start, toolCallFormat.call_end)
  ELSE IF specialTokens["tool_call"].kind = "pair"
  THEN ExampleLines(specialTokens["tool_call"].start, specialTokens["tool_call"].end)
  ELSE ExampleLines(<< Fence, "json:toolCall" >>, << Fence >>)

FormatInit ==
  /\ input = << >>
  /\ hints \in HintsSet
  /\ pc = "format"
  /\ first = NoResult
  /\ second = NoResult
  /\ StreamIdle /\ ConcIdle /\ RequestIdle

\* the instruction is formatted and the model answers with the example
FormatExample ==
  /\ pc = "format"
  /\ input' = formatToolDefinitionsAsText(hints.special_tokens, hints)
  /\ pc' = "ready"
  /\ UNCHANGED << hints, first, second >>
  /\ UNCHANGED << svars, xvars >>

FormatNext == FormatExample \/ Parse \/ Reparse

FormatSpec == FormatInit /\ [][FormatNext]_vars

\* the call of the example
ExampleCall ==
  ToolCall(0, JStr("tool_name"), JObj(<< [k |-> "param", v |-> JStr("value")] >>))

\* parseToolCalls was called on the example
ExampleParsed == pc \in { "parsed", "reparsed", "hung" }

\* the hints hold a special token pair whose delimiter texts are both empty,
\* and no template delimiters before it
EmptyPairReached ==
  /\ ~(hints.call_start # << >> /\ hints.call_end # << >>)
  /\ hints.special_tokens["tool_call"] = TokenPair(<< >>, << >>)

(***************************************************************************)
(* C21.  For any hints, parseToolCalls with those hints, given the example *)
(* that formatToolDefinitionsAsText emits for them (start delimiter, JSON  *)
(* call, end delimiter), returns exactly the one call of the example.      *)
(***************************************************************************)
C21_EmittedSyntaxDetected ==
  ExampleParsed =>
    /\ first.status = "returned"
    /\ first.toolCalls = << ExampleCall >>

\* the same for all hints but those with an empty special token pair
C21_DetectedUnlessEmptyPair ==
  (ExampleParsed /\ ~EmptyPairReached) =>
    /\ first.status = "returned"
    /\ first.toolCalls = << ExampleCall >>
    /\ first.content = << >>

\* with the empty pair the call never returns
C21_EmptyPairHangs ==
  (ExampleParsed /\ EmptyPairReached) => pc = "hung" /\ first = Hangs

(***************************************************************************)
(* parseToolCalls on texts that hold one bare JSON call, with no delimiter *)
(* and no code fence around it, the arguments of the call holding nested   *)
(* objects.                                                                *)
(***************************************************************************)
\* {"name":"fn_a","arguments":{"x":{"x":1}}}
NestedLast ==
  << "{", "\"name\":", "\"fn_a\"", ",", "\"arguments\":",
     "{", "\"x\":", "{", "\"x\":", "1", "}", "}", "}" >>

\* {"name":"fn_a","arguments":{"param":{"x":1},"x":1}}
NestedFirst ==
  << "{", "\"name\":", "\"fn_a\"", ",", "\"arguments\":",
     "{", "\"param\":", "{", "\"x\":", "1", "}", ",", "\"x\":", "1", "}", "}" >>

\* {"name":"fn_a","parameters":{"x":{}}}
NestedEmpty ==
  << "{", "\"name\":", "\"fn_a\"", ",", "\"parameters\":",
     "{", "\"x\":", "{", "}", "}", "}" >>

\* {"name":"fn_a","arguments":{"x":{"x":1} } }
NestedSpaced ==
  << "{", "\"name\":", "\"fn_a\"", ",", "\"arguments\":",
     "{", "\"x\":", "{", "\"x\":", "1", "}", " ", "}", " ", "}" >>

BareCalls == { CallB, NestedLast, NestedFirst, NestedEmpty, NestedSpaced }

BareTexts ==
  { pre \o c \o post :
      pre \in { << >>, << "hi" >>, << "hi", "\n" >> },
      c \in BareCalls,
      post \in { << >>, << "\n", "hi" >> } }

BareInit ==
  /\ input \in BareTexts
  /\ hints \in HintsSet
  /\ pc = "ready"
  /\ first = NoResult
  /\ second = NoResult
  /\ StreamIdle /\ ConcIdle /\ RequestIdle

BareSpec == BareInit /\ [][Next]_vars

\* the call a bare JSON call object stands for
CallOf(c) ==
  ToolCall(0, GetProp(JsonParse(c), "name"),
           JsOr(GetProp(JsonParse(c), "arguments"), GetProp(JsonParse(c), "parameters")))

\* an object is nested in the arguments of the call
HasNestedObject(c) ==
  \E i \in 1..Len(CallOf(c).arguments.kv) : CallOf(c).arguments.kv[i].v.t = "obj"

(***************************************************************************)
(* C22.  From a text that holds a bare JSON call whose arguments contain   *)
(* nested objects, the generic fallback extracts that call, the whole      *)
(* object up to its own closing brace being taken and parsed.              *)
(***************************************************************************)
C22_NestedArgumentsExtracted ==
  Parsed =>
    \A c \in BareCalls :
      (IndexOf(input, c) # 0 /\ HasNestedObject(c)) => first.toolCalls = << CallOf(c) >>

\* a call without nested objects is extracted, and so is one whose nested
\* object is followed by another member
C22_FlatExtracted ==
  Parsed =>
    \A c \in { CallB, NestedFirst } :
      IndexOf(input, c) # 0 => first.toolCalls = << CallOf(c) >>

\* a call whose arguments end with a nested object is not found at all
C22_NestedLastLost ==
  Parsed =>
    \A c \in { NestedLast, NestedEmpty, NestedSpaced } :
      IndexOf(input, c) # 0 => first.toolCalls = << >> /\ first.content = input

(***************************************************************************)
(* MlxDriver with the runtime info of the loaded model: streamQuery        *)
(* (part_008 505-565) hands this.runtimeInfo to parseToolCalls.            *)
(***************************************************************************)
\* the runtime infos a loaded model may report
MlxInfos ==
  { MlxRuntimeInfo,
    HintsOf(NoDelimiters, "", NoToken, NoToken, NoToken),
    HintsOf(NoDelimiters, "", TokenPair(<< >>, << >>), NoToken, NoToken) }

MlxInit ==
  /\ input = << >> /\ hints \in MlxInfos
  /\ pc = "off" /\ first = NoResult /\ second = NoResult
  /\ ConcIdle /\ RequestIdle
  /\ driver = "mlx" /\ op \in { "query", "streamQuery" } /\ tools \in BOOLEAN
  /\ spc = "call"
  /\ wire = << >> /\ acc = EmptyAcc /\ gen = GenIdle /\ yielded = << >>
  /\ resultP = Pending /\ outcome = Pending

\* what parseToolCalls is asked when the completion resolved (lines 541-545)
MlxParseResult(content, withTools, runtimeInfo) ==
  IF withTools THEN parseToolCalls(content, runtimeInfo) ELSE NotTried(content)

\* the callback of completion.then (lines 536-562): it throws on an error,
\* and it returns only if parseToolCalls does
MlxSettled(state, content, withTools, parseResult) ==
  CASE state = "rejected" -> [state |-> "rejected", value |-> NoValue]
    [] parseResult.status = "hangs" -> Pending
    [] OTHER -> [state |-> "fulfilled", value |-> MlxResultOf(content, withTools, parseResult)]

\* resultPromise of streamQuery: the completion resolved, tool calls are
\* looked for with the runtime info of the model
MlxResultSettles ==
  /\ driver = "mlx" /\ resultP.state = "pending" /\ spc \in { "done", "rejected" }
  /\ resultP' = MlxSettled(spc, acc.fullContent, tools,
                           MlxParseResult(acc.fullContent, tools, hints))
  /\ spc' = IF resultP'.state = "pending" THEN "hung" ELSE spc
  /\ UNCHANGED << pvars, xvars, driver, op, tools, wire, acc, gen, yielded, outcome >>

MlxNext ==
  \/ CreateStream \/ CreateFails \/ MlxYield \/ MlxEnd \/ MlxFails
  \/ MlxResultSettles \/ QueryReturns

MlxSpec == MlxInit /\ [][MlxNext]_vars

\* a query with tools whose response was read to its end and in which no
\* strategy of the parser finds a tool call
NoParseableCall ==
  /\ driver = "mlx" /\ tools /\ acc.streamConsumed
  /\ FirstFound(StrategyResults(acc.fullContent, hints)) = 0

\* the callback of completion.then has run, or has started and never ends
MlxLooked == resultP.state # "pending" \/ spc = "hung"

\* C23: when the response to a query with tools holds no parseable tool
\* call, the result is the whole response text as content, no toolCalls and
\* finishReason 'stop', and the query does not fail
C23_PlainResponseReturned ==
  (NoParseableCall /\ MlxLooked) =>
    /\ resultP = [state |-> "fulfilled",
                  value |-> QueryResult(Join(wire, 1), FALSE, << >>, "stop")]
    /\ outcome.state # "threw"

\* ... which holds for every runtime info but the one with a pair of empty
\* tool_call tokens
C23_ReturnedUnlessEmptyPair ==
  (NoParseableCall /\ MlxLooked /\ hints.special_tokens["tool_call"] # TokenPair(<< >>, << >>)) =>
    /\ resultP = [state |-> "fulfilled",
                  value |-> QueryResult(Join(wire, 1), FALSE, << >>, "stop")]
    /\ outcome.state # "threw"

\* ... and with that pair no result is ever there
C23_EmptyPairNeverSettles ==
  (driver = "mlx" /\ tools /\ hints.special_tokens["tool_call"] = TokenPair(<< >>, << >>)
     /\ acc.streamConsumed) =>
    resultP.state = "pending" /\ outcome.state \in { "pending", "stream" }

C23_PlainReturned ==
  /\ NoParseableCall /\ Len(wire) > 0 /\ op = "query" /\ outcome.state = "returned"
  /\ outcome.value.finishReason = "stop"

\* the consumer has read the text stream to its end, or the stream failed
\* under its hands
StreamReadOut == gen.pc \in { "ended", "threw" }

\* C24: the result promise of MlxDriver settles only after the text stream
\* was iterated to its end or failed; it is never there while the stream is
\* still unread
C24_SettlesAfterStreamRead ==
  (driver = "mlx" /\ resultP.state # "pending") =>
    /\ StreamReadOut
    /\ yielded = wire

C24_SettledAfterRead ==
  /\ driver = "mlx" /\ op = "streamQuery" /\ resultP.state = "fulfilled"
  /\ Len(yielded) >= 2 /\ gen.pc = "ended"

\* the hints name a tool_call token pair whose two texts are empty
EmptyTokenPair == hints.special_tokens["tool_call"] = TokenPair(<< >>, << >>)

\* C25: parseToolCalls terminates for every text and every hints value,
\* hints whose start and end delimiter texts are both empty included
C25_ParseTerminates == pc \in { "parsed", "reparsed", "ready" }

\* ... which it does for all hints but those with the empty pair
C25_TerminatesUnlessEmptyPair == pc = "hung" => EmptyTokenPair

\* ... and with that pair the first call never returns, unless the template
\* delimiters or the named parser format gave a call before
C25_EmptyPairLoops ==
  (pc # "ready" /\ EmptyTokenPair /\ hints.call_start = << >> /\ hints.tool_parser_type = "")
    => pc = "hung" /\ first.status = "hangs"

\* finishReason and toolCalls of a QueryResult agree
ReasonAgrees(r) ==
  /\ (r.finishReason = "tool_calls") <=> r.hasToolCalls
  /\ r.hasToolCalls => Len(r.toolCalls) > 0

\* C26: in every QueryResult a driver returns, finishReason is 'tool_calls'
\* exactly when toolCalls is present, and toolCalls, when present, is a
\* non-empty list
C26_ReasonMatchesToolCalls == \A r \in ReturnedResults : ReasonAgrees(r)

\* ... which holds of GoogleGenAIDriver and MlxDriver, and of the second half
\* for every driver
C26_AgreesElsewhere ==
  \A r \in ReturnedResults :
    /\ driver # "anthropic" => ReasonAgrees(r)
    /\ r.hasToolCalls => Len(r.toolCalls) > 0

\* ... while AnthropicDriver reports the stop_reason the provider sent, with
\* or without tool calls
C26_AnthropicReasonIsStopReason ==
  (driver = "anthropic" /\ resultP.state = "fulfilled") =>
    /\ resultP.value.finishReason = acc.finishReason
    /\ resultP.value.hasToolCalls <=> (\E i \in 1..Len(wire) : wire[i].type = "content_block_start")

\* tool calls were received and then the provider's iterator threw
FailedAfterToolCalls ==
  /\ driver = "google" /\ op = "streamQuery" /\ spc = "caught"
  /\ WireCalls(wire, 1) # << >>

\* C27: if the provider stream fails part-way through streamQuery of
\* GoogleGenAIDriver, the final result has finishReason 'error', also when
\* tool calls had been received before the failure
C27_FailureGivesError ==
  (driver = "google" /\ op = "streamQuery" /\ spc = "caught" /\ resultP.state = "fulfilled")
    => resultP.value.finishReason = "error"

\* ... which holds when no tool call was received
C27_ErrorWithoutToolCalls ==
  (driver = "google" /\ op = "streamQuery" /\ spc = "caught" /\ resultP.state = "fulfilled"
     /\ WireCalls(wire, 1) = << >>)
    => resultP.value.finishReason = "error"

\* ... while after tool calls the failure is reported as 'tool_calls'
C27_ToolCallsHideFailure ==
  (FailedAfterToolCalls /\ resultP.state = "fulfilled")
    => resultP.value.finishReason = "tool_calls" /\ resultP.value.hasToolCalls

(***************************************************************************)
(* MlxDriver.executeQuery (part_008 435-484): the route by which the tool  *)
(* definitions of a query reach the model.                                 *)
(***************************************************************************)
\* the runtime info of a loaded model: the hints of the parser and
\* features.apply_chat_template
RuntimeInfoOf(tpl, tc, template) ==
  [apply_chat_template |-> template] @@ HintsOf(tpl, "", tc, NoToken, NoToken)

ExecInfos ==
  { RuntimeInfoOf(tpl, tc, template) :
      tpl \in { NoDelimiters, [start |-> PyStart, end |-> PyEnd] },
      tc \in { NoToken, TokenPair(ToolCallStart, ToolCallEnd) },
      template \in BOOLEAN }

\* determineApi (lines 413-421)
determineApi(strategy, runtimeInfo) ==
  CASE strategy = "force-completion" -> "completion"
    [] strategy = "force-chat" -> "chat"
    [] OTHER -> IF runtimeInfo.apply_chat_template THEN "chat" ELSE "completion"

\* hasNativeToolSupport (lines 426-429)
hasNativeToolSupport(runtimeInfo) == runtimeInfo.call_start # << >>

\* the prompt with the text of the tool definitions added to its
\* instructions (lines 446-462)
augmentedPrompt(instructions, runtimeInfo, withTools) ==
  IF withTools /\ ~hasNativeToolSupport(runtimeInfo)
  THEN Append(instructions,
              TextElement(formatToolDefinitionsAsText(runtimeInfo.special_tokens, runtimeInfo)))
  ELSE instructions

\* what is handed to the model process (lines 464-481): the API, the prompt
\* that is formatted for it, and whether the tools go along
MlxRequest(api, instructions, nativeTools) ==
  [state |-> "built", api |-> api, contents |-> instructions, tools |-> nativeTools]

executeQuery(instructions, runtimeInfo, strategy, withTools) ==
  IF determineApi(strategy, runtimeInfo) = "completion"
  THEN MlxRequest("completion", augmentedPrompt(instructions, runtimeInfo, withTools), FALSE)
  ELSE MlxRequest("chat", augmentedPrompt(instructions, runtimeInfo, withTools),
                  hasNativeToolSupport(runtimeInfo) /\ withTools)

ExecInit ==
  /\ input = << >> /\ hints \in ExecInfos
  /\ pc = "off" /\ first = NoResult /\ second = NoResult
  /\ ConcIdle
  /\ driver = "mlx" /\ op \in { "query", "streamQuery" } /\ tools \in BOOLEAN
  /\ spc = "call"
  /\ wire = << >> /\ acc = EmptyAcc /\ gen = GenIdle /\ yielded = << >>
  /\ resultP = Pending /\ outcome = Pending
  /\ rdriver = "mlx"
  /\ prompt \in { << >>, << TextElement(<< "hi" >>) >> }
  /\ messages = << >> /\ converted = << >> /\ request = NoRequest
  /\ apiStrategy \in { "auto", "force-chat", "force-completion" }

\* executeQuery up to process.completion / process.chat
ExecuteQuery ==
  /\ rdriver = "mlx" /\ request.state = "none"
  /\ request' = executeQuery(prompt, hints, apiStrategy, tools)
  /\ UNCHANGED << pvars, svars, cvars, rdriver, prompt, messages, converted, apiStrategy >>

ExecNext == ExecuteQuery

ExecSpec == ExecInit /\ [][ExecNext]_vars

\* the tool definitions went into the instructions as text
ByText == Len(request.contents) = Len(prompt) + 1

\* the tool definitions went to the chat template
ByTemplate == request.tools

\* C28: whenever a query to MlxDriver carries a non-empty tools list, the
\* tool definitions reach the model by exactly one route, natively or as
\* text in the instructions, whichever API is selected
C28_ExactlyOneRoute ==
  (rdriver = "mlx" /\ tools /\ request.state = "built") => (ByText # ByTemplate)

\* ... never by both, and by one of them with the chat API
C28_OneRouteWithChat ==
  (rdriver = "mlx" /\ tools /\ request.state = "built") =>
    /\ ~(ByText /\ ByTemplate)
    /\ request.api = "chat" => (ByText # ByTemplate)

\* ... but by neither with the completion API on a model with native support
C28_NoRouteWithCompletion ==
  (rdriver = "mlx" /\ tools /\ request.state = "built") =>
    ((~ByText /\ ~ByTemplate) <=> (request.api = "completion" /\ hasNativeToolSupport(hints)))

(***************************************************************************)
(* parseToolCalls on payloads whose name or arguments is not what a tool   *)
(* call has: each payload inside each of the syntaxes the strategies read. *)
(***************************************************************************)
\* the JSON object with the given lexemes for the values of name and
\* arguments
PayloadOf(name, args) == << "{", "\"name\":" >> \o name \o << ",", "\"arguments\":" >> \o args \o << "}" >>

Payloads ==
  { << "{", "\"x\":", "1", "}" >> }
  \cup { PayloadOf(name, << "{", "}" >>) : name \in { << "\"fn_a\"" >>, << "1" >>, << "\"\"" >>, << "true" >> } }
  \cup { PayloadOf(<< "\"fn_a\"" >>, args) :
           args \in { << "1" >>, << "[", "1", "]" >>, << "\"sunny\"" >>, << "true" >>, << "null" >>,
                      << "{", "\"x\":", "1", "}" >> } }

\* a payload between the tool_call tokens, in a labelled code block, after
\* the marker, and bare
PayloadTexts ==
  UNION { { ToolCallStart \o c \o ToolCallEnd,
            << Fence, "json:toolCall", "\n" >> \o c \o << "\n", Fence >>,
            Marker \o c,
            c } : c \in Payloads }

PayloadInit ==
  /\ input \in PayloadTexts
  /\ hints \in HintsSet
  /\ pc = "ready"
  /\ first = NoResult
  /\ second = NoResult
  /\ StreamIdle /\ ConcIdle /\ RequestIdle

PayloadSpec == PayloadInit /\ [][Next]_vars

\* the tool calls parseToolCalls has returned
ParsedCalls ==
  { first.toolCalls[i] : i \in 1..Len(first.toolCalls) }
  \cup { second.toolCalls[i] : i \in 1..Len(second.toolCalls) }

InCodeBlock == IndexOf(input, << Fence >>) # 0

\* C29: every ToolCall that parseToolCalls returns has a name that is a
\* non-empty string, whichever strategy produced it and whatever JSON the
\* matched span or code block held
C29_NameIsNonEmptyString ==
  \A call \in ParsedCalls : call.name.t = "str" /\ call.name.s # ""

\* ... while the name is the value of the payload's name as it is: truthy out
\* of a span or after the marker, anything out of a code block
C29_NameAsInPayload ==
  \A call \in ParsedCalls :
    /\ call.name \in { JStr("fn_a"), JNum(1), JBool(TRUE), JStr(""), JUndef }
    /\ ~Truthy(call.name) => InCodeBlock

\* ... a call out of a code block that holds no name
C29_NamelessCall ==
  /\ Parsed /\ InCodeBlock
  /\ first.toolCalls = << ToolCall(0, JUndef, EmptyObj) >>

\* C30: every ToolCall that parseToolCalls returns has arguments that is a
\* key-value mapping, never a string, number, boolean, array or null,
\* whichever strategy produced it and whatever the payload held
C30_ArgumentsIsMapping ==
  \A call \in ParsedCalls : call.arguments.t = "obj"

\* ... while arguments is the payload's value whenever that is truthy, and
\* {} otherwise
C30_ArgumentsTruthy ==
  \A call \in ParsedCalls :
    /\ Truthy(call.arguments)
    /\ call.arguments \in { EmptyObj, JObj(<< [k |-> "x", v |-> JNum(1)] >>), JNum(1),
                            JArr(<< JNum(1) >>), JStr("sunny"), JBool(TRUE) }

\* ... a call whose arguments is an array
C30_ArrayArguments ==
  /\ Parsed
  /\ first.toolCalls = << ToolCall(0, JStr("fn_a"), JArr(<< JNum(1) >>)) >>

====
